---- MODULE Spec2Model ----
(***************************************************************************)
(* A model of the Jupyter kernel gateway: the managed kernel pool          *)
(* (services/kernels/pool.py) with the notebook-HTTP requests that borrow  *)
(* its kernels, the seeding kernel manager (services/kernels/manager.py),  *)
(* the notebook API handler (services/notebooks/handlers.py) and the       *)
(* token authorization mixin (mixins.py).                                  *)
(*                                                                         *)
(* Each part has its own variables and its own specification; a            *)
(* specification leaves the variables of the other parts unchanged.        *)
(***************************************************************************)
EXTENDS Integers, Sequences, FiniteSets, TLC

(***************************************************************************)
(* Bounds of the model.                                                    *)
(***************************************************************************)
MaxPrespawn == 2
NumRequests == 3
MaxCells == 3
MaxStarts == 2
MaxKernelsCfg == 2
MaxHttpRequests == 2
MaxOutputs == 2
MaxLaunches == 2
MaxSessions == 3
MaxSourceCells == 3
MaxSegments == 3
MaxOutside == 2
MaxPortRetries == 5
MaxStops == 2
MaxRestarts == 2

VARIABLES
    \* ---- ManagedKernelPool (pool.py) ----
    prespawn_count,            \* argument of ManagedKernelPool.initialize
    managed_pool_initialized,  \* the Future of pool.py:97, as "is it done"
    kernel_pool,               \* list of available delegate kernel ids
    sem_value,                 \* kernel_semaphore._value
    sem_waiters,               \* kernel_semaphore._waiters, oldest first
    \* ---- notebook-HTTP requests borrowing from the pool ----
    pc,                        \* where each request's coroutine stands
    kernel_id,                 \* the kernel a request got from acquire()
    status,                    \* HTTP status of a completed request
    released,                  \* history: release() calls made by the request
    acq_log                    \* history: the kernels returned by the latest acquire() calls
                               \* that were each made with the whole pool free (the
                               \* requests were served one after the other), at most
                               \* PoolSize of them; emptied by an overlapping acquire()
VARIABLE
    acq_recent                 \* history kept by SpecFifo only: the kernels returned by
                               \* the latest acquire() calls, at most PoolSize of them

VARIABLES
    \* ---- SeedingMappingKernelManager (manager.py) and its REST clients ----
    seed_notebook,             \* parent.seed_notebook, or NoNotebook
    max_kernels,               \* kg_max_kernels; 0 stands for None (unbounded)
    kernels,                   \* ids in the manager's map (list_kernel_ids())
    next_id,                   \* the next fresh kernel id
    started,                   \* id and kernel_name of the latest start_kernel call
    executed,                  \* the sources that call sent with client.execute
    replied,                   \* the number of shell replies that call received
    reply_status,              \* content.status of the last shell reply it received
    channels,                  \* the channels of that call's client
    call,                      \* the start_kernel call that is running, or NoCall
    response,                  \* the response to the latest REST request
    failed                     \* history: the kernels whose seeding failed

VARIABLES
    \* ---- NotebookAPIHandler (services/notebooks/handlers.py) and its kernel ----
    h_pc,                      \* where the handler stands in _handle_request
    reqno,                     \* the number of HTTP requests received
    next_msg,                  \* the next fresh msg_id of an execute request
    kernel_work,               \* the kernel's execute requests, with what each has yet to publish
    iopub,                     \* the messages queued in kernel_client's iopub channel
    own_parent,                \* msg_id of the execute request for the endpoint's source
    source_code,               \* the cell source for the request's verb, or "None"
    own_outputs,               \* history: what the kernel publishes for that source
    h_response                 \* the latest HTTP response, with the message it was built from

VARIABLES
    \* ---- TokenAuthorizationMixin (mixins.py) ----
    server_token,              \* settings["kg_auth_token"]
    auth_request,              \* method, token argument and Authorization header
    status_code,               \* status set by send_error, 0 for none
    is_prepared                \* whether the wrapped handler's prepare() ran

VARIABLES
    \* ---- environment of the kernel processes (jupyter-websocket mode) ----
    env_whitelist,             \* names a create request may set besides KERNEL_*
    env_process_whitelist,     \* names inherited from the gateway process
    os_environ,                \* the gateway process environment
    request_env,               \* per client: the env of its create request
    launch_args,               \* per kernel: _launch_args["env"]
    kernel_environ,            \* per kernel: the environment of its process
    launches                   \* per kernel: number of times it was launched

envVars == <<env_whitelist, env_process_whitelist, os_environ, request_env,
             launch_args, kernel_environ, launches>>

VARIABLES
    \* ---- listing of sessions and kernels (services/sessions/handlers.py) ----
    kg_list_kernels,           \* settings["kg_list_kernels"], or Missing
    sessions,                  \* the sessions that exist, each with a kernel of its own
    list_response              \* the response to the latest GET of a listing

listVars == <<kg_list_kernels, sessions, list_response>>

VARIABLES
    \* ---- APICellParser.endpoints / endpoint_responses (parser.py) ----
    source_cells,              \* the argument: sources of the notebook's code cells
    endpoints,                 \* what endpoints(source_cells) returned, or NotCalled
    endpoint_responses         \* what endpoint_responses(source_cells) returned

VARIABLES
    \* ---- parameterize_path (notebook_http/request_utils.py) ----
    path,                      \* the argument, a sequence of characters
    path_regex                 \* what parameterize_path(path) returned, or NotCalled

epVars == <<source_cells, endpoints, endpoint_responses>>

pathVars == <<path, path_regex>>

VARIABLES
    \* ---- ManagedKernelPool.initialize and shutdown (pool.py) ----
    init_pc,                   \* where ManagedKernelPool.initialize stands: "none",
                               \* "gather", "done" or "raised"
    spawn_failed,              \* the start_seeded_kernel calls of initialize that raised
    pool_initialized,          \* the Future of pool.py:35, as "is it done"
    kernel_clients,            \* the keys of the dict of pool.py:94, in insertion order
    kernel_ids,                \* kernel_manager.list_kernel_ids()
    spawned,                   \* the kernels initialize has spawned
    next_kid,                  \* the next fresh kernel id
    sd_pc,                     \* per caller: where its shutdown coroutine stands
    sd_todo,                   \* per caller: the kernel ids its loop has yet to visit
    sd_pending,                \* per caller: the kernel whose shutdown_kernel it
                               \* awaits, or NoKernel
    channels_stopped,          \* the pool's clients whose stop_channels() was called
    shutdown_calls             \* history: shutdown_kernel calls, per kernel id

sdVars == <<init_pc, spawn_failed, pool_initialized, kernel_clients, kernel_ids,
            spawned, next_kid, sd_pc,
            sd_todo, sd_pending, channels_stopped, shutdown_calls>>

VARIABLES
    \* ---- KernelGatewayApp.init_configurables (gatewayapp.py) ----
    app_prespawn_count,        \* self.prespawn_count, or Unset for None
    app_max_kernels,           \* self.max_kernels, or Unset for None
    api,                       \* self.api, the module of the personality
    app_pc,                    \* where the startup stands
    personality,               \* self.personality, "none" while there is none
    app_spawned                \* the kernels the personality's pool has spawned

cfgVars == <<app_prespawn_count, app_max_kernels, api, app_pc, personality, app_spawned>>

VARIABLES
    \* ---- KernelGatewayApp.init_http_server (gatewayapp.py) ----
    configured_port,           \* self.port as configured
    port_retries,              \* self.port_retries
    port,                      \* self.port
    srv_pc,                    \* where init_http_server stands
    tried,                     \* history: the listen() calls, port and outcome
    listening                  \* the ports http_server listens on

portVars == <<configured_port, port_retries, port, srv_pc, tried, listening>>

VARIABLES
    \* ---- signals, start and stop of KernelGatewayApp (gatewayapp.py) ----
    interactive,               \* sys.stdin.isatty() at init_signal
    answer_yes,                \* self.answer_yes
    sigint_handler,            \* the handler installed for SIGINT
    confirm,                   \* where the _confirm_exit thread stands
    answer,                    \* history: the latest line read by _confirm_exit
    restore_queued,            \* _restore_sigint_handler waits on the IO loop
    http_server,               \* "accepting" or "stopped"
    io_loop,                   \* "running", "stopped" or "interrupted"
    main_pc,                   \* where start() stands
    stop_calls,                \* the number of stop() calls made by signal handling
    stop_pc,                   \* per stop() call: where its _stop coroutine stands
    cause,                     \* history, per stop() call: what called it
    finally_stop,              \* the _stop queued by the stop() of start()'s finally
    ws_open                    \* kernel websocket connections are open

stopVars == <<interactive, answer_yes, sigint_handler, confirm, answer, restore_queued,
              http_server, io_loop, main_pc, stop_calls, stop_pc, cause, finally_stop,
              ws_open>>

VARIABLES
    \* ---- one KernelGatewayIOLoopKernelManager (services/kernels/manager.py) ----
    has_kernel_started,        \* self.has_kernel_started
    km_launch_args,            \* self._launch_args: [set |-> FALSE] stands for None
    kernel,                    \* self.kernel: "none", "running" or "exited"
    connection_file,           \* the connection file in use: 0 for none, else its number
    files_written,             \* history: how many connection files were written
    km_calls,                  \* history: calls of start_kernel, shutdown_kernel, restart_kernel, is_alive
    last_shutdown,             \* history: the arguments of the latest shutdown_kernel
    last_start,                \* history: the arguments of the latest start_kernel
    last_kw,                   \* history: the kw of the latest restart_kernel
    raised                     \* history: what the latest call raised

restartVars == <<has_kernel_started, km_launch_args, kernel, connection_file, files_written,
                 km_calls, last_shutdown, last_start, last_kw, raised>>

VARIABLES
    \* ---- JSONErrorsMixin.write_error (mixins.py) ----
    error_call,                \* the status_code and the exception of the latest call
    error_response             \* what that call set on the response

errVars == <<error_call, error_response>>

appVars == <<sdVars, cfgVars, portVars, stopVars, restartVars, errVars>>

extVars == <<envVars, listVars, epVars, pathVars, appVars>>

hVars == <<h_pc, reqno, next_msg, kernel_work, iopub, own_parent, source_code,
           own_outputs, h_response>>

authVars == <<server_token, auth_request, status_code, is_prepared>>

mgrVars == <<seed_notebook, max_kernels, kernels, next_id, started, executed,
             replied, reply_status, channels, call, response, failed>>

poolVars == <<prespawn_count, managed_pool_initialized, kernel_pool,
              sem_value, sem_waiters, pc, kernel_id, status, released, acq_log>>

vars == <<poolVars, acq_recent, mgrVars, hVars, authVars, extVars>>

Requests == 1 .. NumRequests
NoKernel == 0

(***************************************************************************)
(* ManagedKernelPool.initialize: "Make sure there's at least one kernel as *)
(* a delegate" -- the number of kernels spawned and the size of the        *)
(* semaphore.                                                              *)
(***************************************************************************)
\* Mutation: the pool is as large as asked for, even when that is nothing.
PoolSizeAsGiven == prespawn_count

PoolSize == IF prespawn_count = 0 THEN 1 ELSE prespawn_count

\* kernel_manager.list_kernel_ids() after the prespawn: ids in start order.
KernelIds == 1 .. PoolSize

RECURSIVE IdList(_)
IdList(n) == IF n = 0 THEN <<>> ELSE Append(IdList(n - 1), n)

Range(s) == {s[i] : i \in 1 .. Len(s)}

\* The requests that hold a kernel: acquire() has returned, release() not yet called.
Holding == {"source", "metadata"}
InFlight == {r \in Requests : pc[r] \in Holding}

NoDup(s) == \A i, j \in 1 .. Len(s) : i # j => s[i] # s[j]

PoolStart ==
    /\ managed_pool_initialized = FALSE
    /\ kernel_pool = <<>>
    /\ sem_value = 0
    /\ sem_waiters = <<>>
    /\ pc = [r \in Requests |-> "ready"]
    /\ kernel_id = [r \in Requests |-> NoKernel]
    /\ status = [r \in Requests |-> 0]
    /\ released = [r \in Requests |-> 0]
    /\ acq_log = <<>>
    /\ acq_recent = <<>>

InitPool ==
    /\ prespawn_count \in 0 .. MaxPrespawn
    /\ PoolStart

\* The pool as it is while the model looks at another part of the gateway.
PoolAbsent ==
    /\ prespawn_count = 0
    /\ PoolStart

(***************************************************************************)
(* The kernel manager's part of the state.                                 *)
(***************************************************************************)
Ids == 1 .. MaxStarts
NoNotebook == [kernelspec |-> "none", cells |-> <<>>]
NoCall == [kid |-> 0, idx |-> 0, waiting |-> FALSE]
NoResponse == [code |-> 0, kid |-> 0]
NoneStarted == [kid |-> 0, name |-> "none"]

MgrStart ==
    /\ kernels = {}
    /\ next_id = 1
    /\ started = NoneStarted
    /\ executed = <<>>
    /\ replied = 0
    /\ reply_status = "none"
    /\ channels = "none"
    /\ call = NoCall
    /\ response = NoResponse
    /\ failed = {}

\* The manager as it is while the model looks at another part of the gateway.
MgrAbsent ==
    /\ seed_notebook = NoNotebook
    /\ max_kernels = 0
    /\ MgrStart

(***************************************************************************)
(* The notebook API handler's and the token mixin's parts of the state.    *)
(***************************************************************************)
NoHttpResponse == [code |-> 0, used |-> 0, own |-> 0, body |-> "none"]

HandlerStart ==
    /\ h_pc = "idle"
    /\ reqno = 0
    /\ next_msg = 1
    /\ kernel_work = <<>>
    /\ iopub = <<>>
    /\ own_parent = 0
    /\ source_code = "None"
    /\ own_outputs = <<>>
    /\ h_response = NoHttpResponse

\* A Python value that is None or a string; a string is the sequence of its
\* characters.
None == [some |-> FALSE, text |-> <<>>]
Some(text) == [some |-> TRUE, text |-> text]
NoRequest == [method |-> "none", token |-> None, authorization |-> None]

AuthStart ==
    /\ auth_request = NoRequest
    /\ status_code = 0
    /\ is_prepared = FALSE

AuthAbsent ==
    /\ server_token = None
    /\ AuthStart

\* One variable's name is a sequence of pieces, so that "starts with KERNEL_" is
\* a test on the name.
KERNEL_FOO == <<"KERNEL_", "FOO">>
KERNEL_GATEWAY == <<"KERNEL_", "GATEWAY">>
NOT_KERNEL == <<"NOT_", "KERNEL_">>
TEST_VAR == <<"TEST_VAR">>
KG_AUTH_TOKEN == <<"KG_AUTH_TOKEN">>
HOME == <<"HOME">>

EnvNames == {KERNEL_FOO, KERNEL_GATEWAY, NOT_KERNEL, TEST_VAR, KG_AUTH_TOKEN, HOME}
Absent == "absent"
EmptyEnv == [n \in EnvNames |-> Absent]
Clients == {"a", "b"}

EnvStart ==
    /\ request_env = [c \in Clients |-> EmptyEnv]
    /\ launch_args = [c \in Clients |-> EmptyEnv]
    /\ kernel_environ = [c \in Clients |-> EmptyEnv]
    /\ launches = [c \in Clients |-> 0]

EnvAbsent ==
    /\ env_whitelist = {}
    /\ env_process_whitelist = {}
    /\ os_environ = EmptyEnv
    /\ EnvStart

CoreAbsent == PoolAbsent /\ MgrAbsent /\ HandlerStart /\ AuthAbsent

\* A Python value with its type: 1 == True holds, 1 is True does not.
PyValue(type, val) == [type |-> type, val |-> val]
PyTrue == PyValue("bool", 1)
PyFalse == PyValue("bool", 0)
Missing == PyValue("missing", 0)
NoListing == [endpoint |-> "none", code |-> 0, body |-> {}]

ListStart ==
    /\ sessions = {}
    /\ list_response = NoListing

ListAbsent ==
    /\ kg_list_kernels = Missing
    /\ ListStart

NotCalled == [called |-> FALSE, value |-> <<>>]
Returned(value) == [called |-> TRUE, value |-> value]

EpStart ==
    /\ endpoints = NotCalled
    /\ endpoint_responses = NotCalled

EpAbsent ==
    /\ source_cells = <<>>
    /\ EpStart

PathAbsent ==
    /\ path = <<>>
    /\ path_regex = NotCalled

\* The callers of ManagedKernelPool.shutdown: one per call of
\* KernelGatewayApp.stop.
Callers == 1 .. MaxStops

\* Every kernel id the manager may hand out.
AllKernelIds == 1 .. (MaxPrespawn + MaxOutside)

SdStart ==
    /\ init_pc = "none"
    /\ spawn_failed = 0
    /\ pool_initialized = FALSE
    /\ kernel_clients = <<>>
    /\ kernel_ids = <<>>
    /\ spawned = 0
    /\ next_kid = 1
    /\ sd_pc = [c \in Callers |-> "none"]
    /\ sd_todo = [c \in Callers |-> <<>>]
    /\ sd_pending = [c \in Callers |-> NoKernel]
    /\ channels_stopped = {}
    /\ shutdown_calls = [k \in AllKernelIds |-> 0]

\* None as the value of an Integer trait with allow_none.
Unset == -1

CfgStart ==
    /\ app_pc = "new"
    /\ personality = "none"
    /\ app_spawned = 0

CfgAbsent ==
    /\ app_prespawn_count = Unset
    /\ app_max_kernels = Unset
    /\ api = "kernel_gateway.jupyter_websocket"
    /\ CfgStart

PortStart ==
    /\ port = configured_port
    /\ srv_pc = "new"
    /\ tried = <<>>
    /\ listening = {}

PortAbsent ==
    /\ configured_port = 1
    /\ port_retries = 0
    /\ PortStart

NoAnswer == <<"no answer">>

\* The application after initialize(), inside io_loop.start() (gatewayapp.py:805).
StopStart ==
    /\ sigint_handler = (IF interactive THEN "_handle_sigint" ELSE "default")
    /\ confirm = "none"
    /\ answer = NoAnswer
    /\ restore_queued = FALSE
    /\ http_server = "accepting"
    /\ io_loop = "running"
    /\ main_pc = "io_loop.start"
    /\ stop_calls = 0
    /\ stop_pc = [c \in Callers |-> "none"]
    /\ cause = [c \in Callers |-> "none"]
    /\ finally_stop = FALSE
    /\ ws_open = TRUE

StopAbsent ==
    /\ interactive = TRUE
    /\ answer_yes = FALSE
    /\ StopStart

\* Keyword arguments of start_kernel and restart_kernel: per key a value or
\* "absent".
ArgKeys == {"cwd", "env"}

ArgValues == {"absent", "a", "b"}

Kws == [ArgKeys -> ArgValues]

NoKw == [k \in ArgKeys |-> "absent"]

NoShutdown == [called |-> FALSE, now |-> FALSE, restart |-> FALSE]

\* A kernel manager as constructed: no kernel, _launch_args None.
RestartStart ==
    /\ has_kernel_started = FALSE
    /\ km_launch_args = [set |-> FALSE, kw |-> NoKw]
    /\ kernel = "none"
    /\ connection_file = 0
    /\ files_written = 0
    /\ km_calls = [start_kernel |-> 0, shutdown_kernel |-> 0, restart_kernel |-> 0,
                   is_alive |-> 0]
    /\ last_shutdown = NoShutdown
    /\ last_start = NoKw
    /\ last_kw = NoKw
    /\ raised = "none"

RestartAbsent == RestartStart

NoException == [kind |-> "none", log_message |-> None, reason |-> None]

NoErrorResponse == [content_type |-> "none", status |-> 0, status_reason |-> <<>>,
                    body |-> {}]

\* No error has been written.
ErrAbsent ==
    /\ error_call = [status_code |-> 0, exception |-> NoException]
    /\ error_response = NoErrorResponse

AppAbsent ==
    SdStart /\ CfgAbsent /\ PortAbsent /\ StopAbsent /\ RestartAbsent /\ ErrAbsent

ExtBaseAbsent == EnvAbsent /\ ListAbsent /\ EpAbsent /\ PathAbsent

ExtAbsent == ExtBaseAbsent /\ AppAbsent

OthersAbsent == HandlerStart /\ AuthAbsent /\ ExtAbsent

(***************************************************************************)
(* ManagedKernelPool.initialize (pool.py:99-118): the semaphore is created *)
(* with prespawn_count permits, the kernels are spawned, every kernel id   *)
(* of the manager is appended to kernel_pool, and the future is resolved.  *)
(***************************************************************************)
Initialize ==
    /\ ~managed_pool_initialized
    /\ sem_value' = PoolSize
    /\ kernel_pool' = IdList(PoolSize)
    /\ managed_pool_initialized' = TRUE
    /\ UNCHANGED <<prespawn_count, sem_waiters, pc, kernel_id, status, released, acq_log>>

(***************************************************************************)
(* tornado.locks.Semaphore as kernel_semaphore uses it.  acquire() takes a *)
(* permit at once when _value > 0 and otherwise queues a waiter future;    *)
(* release() hands the permit to the oldest waiter (its future is          *)
(* resolved, the coroutine runs on from its await later) and otherwise     *)
(* increments _value.                                                      *)
(***************************************************************************)
\* Mutation: acquire() waits unless a second permit is left.
SemCanAcquireSpare(value) == value > 1

SemCanAcquire(value) == value > 0

\* Mutation: release() resolves every waiter's future.
SemReleaseWakeAll(value, waiters) ==
    IF waiters # <<>>
    THEN [value |-> value, waiters |-> <<>>, woken |-> Range(waiters)]
    ELSE [value |-> value + 1, waiters |-> waiters, woken |-> {}]

\* Mutation: release() adds a permit although it hands one to a waiter.
SemReleaseAlsoAdds(value, waiters) ==
    IF waiters # <<>>
    THEN [value |-> value + 1, waiters |-> Tail(waiters), woken |-> {Head(waiters)}]
    ELSE [value |-> value + 1, waiters |-> waiters, woken |-> {}]

SemRelease(value, waiters) ==
    IF waiters # <<>>
    THEN [value |-> value, waiters |-> Tail(waiters), woken |-> {Head(waiters)}]
    ELSE [value |-> value + 1, waiters |-> waiters, woken |-> {}]

(***************************************************************************)
(* ManagedKernelPool.acquire, pool.py:131-133, and release, pool.py:144,   *)
(* as functions of the free list.                                          *)
(***************************************************************************)
\* Mutation: the newest free kernel is handed out instead of the oldest.
AcquiredKernelLast(pool) == pool[Len(pool)]

AcquiredKernel(pool) == pool[1]

\* Mutation: `del self.kernel_pool[0]` is missing.
PoolAfterAcquireKeep(pool) == pool

PoolAfterAcquire(pool) == Tail(pool)

\* Mutation: the kernel id is appended twice.
PoolAfterReleaseTwice(pool, kid) == Append(Append(pool, kid), kid)

\* Mutation: the kernel id is not put back.
PoolAfterReleaseDrop(pool, kid) == pool

PoolAfterRelease(pool, kid) == Append(pool, kid)

LastN(s, n) == IF Len(s) <= n THEN s ELSE SubSeq(s, Len(s) - n + 1, Len(s))

\* pool.py:131-133 for request r, after the semaphore granted a permit.
\* kernel_pool[0] on an empty list raises IndexError: the request ends without a kernel.
TakeHead(r) ==
    IF kernel_pool = <<>>
    THEN /\ pc' = [pc EXCEPT ![r] = "done"]
         /\ status' = [status EXCEPT ![r] = 500]
         /\ UNCHANGED <<kernel_pool, kernel_id, acq_log>>
    ELSE /\ kernel_id' = [kernel_id EXCEPT ![r] = AcquiredKernel(kernel_pool)]
         /\ kernel_pool' = PoolAfterAcquire(kernel_pool)
         /\ pc' = [pc EXCEPT ![r] = "source"]
         /\ acq_log' = IF Len(kernel_pool) = PoolSize
                         THEN LastN(Append(acq_log, AcquiredKernel(kernel_pool)), PoolSize)
                         ELSE <<>>
         /\ status' = [status EXCEPT ![r] = 0]

\* pool.py:130-133: await kernel_semaphore.acquire(), then take the head.
AcquireBody(r) ==
    IF SemCanAcquire(sem_value)
    THEN /\ sem_value' = sem_value - 1
         /\ TakeHead(r)
         /\ UNCHANGED sem_waiters
    ELSE /\ sem_waiters' = Append(sem_waiters, r)
         /\ pc' = [pc EXCEPT ![r] = "waiting"]
         /\ status' = [status EXCEPT ![r] = 0]
         /\ UNCHANGED <<sem_value, kernel_pool, kernel_id, acq_log>>

\* A request is dispatched (a connection that has got its response may send
\* the next request) and calls acquire() (pool.py:120-133); line 129 suspends
\* it while the pool is not initialized.
Acquire(r) ==
    /\ pc[r] \in {"ready", "done"}
    /\ IF managed_pool_initialized
       THEN AcquireBody(r)
       ELSE /\ pc' = [pc EXCEPT ![r] = "awaitInit"]
            /\ status' = [status EXCEPT ![r] = 0]
            /\ UNCHANGED <<sem_value, sem_waiters, kernel_pool, kernel_id, acq_log>>
    /\ released' = [released EXCEPT ![r] = 0]
    /\ UNCHANGED <<prespawn_count, managed_pool_initialized>>

\* acquire() goes on after `await self.managed_pool_initialized` (pool.py:129).
AcquireInitialized(r) ==
    /\ pc[r] = "awaitInit"
    /\ managed_pool_initialized
    /\ AcquireBody(r)
    /\ UNCHANGED <<prespawn_count, managed_pool_initialized, released>>

\* acquire() goes on after `await self.kernel_semaphore.acquire()` (pool.py:130)
\* once a release() has resolved its waiter future.
AcquireResume(r) ==
    /\ pc[r] = "woken"
    /\ TakeHead(r)
    /\ UNCHANGED <<prespawn_count, managed_pool_initialized, sem_value, sem_waiters, released>>

(***************************************************************************)
(* ManagedKernelPool.release (pool.py:135-145), called by request r: the   *)
(* kernel id is appended to the free list, then the semaphore is released. *)
(* r itself moves on to `next`.                                            *)
(***************************************************************************)
Release(r, kid, next) ==
    LET s == SemRelease(sem_value, sem_waiters) IN
    /\ kernel_pool' = PoolAfterRelease(kernel_pool, kid)
    /\ sem_value' = s.value
    /\ sem_waiters' = s.waiters
    /\ pc' = [q \in Requests |->
                IF q = r THEN next
                ELSE IF q \in s.woken THEN "woken" ELSE pc[q]]
    /\ released' = [released EXCEPT ![r] = @ + 1]

(***************************************************************************)
(* The notebook-HTTP dispatcher around acquire and release (spec section   *)
(* 4.6, steps 2-7): preamble and endpoint source, optional                 *)
(* response-metadata cell, release on every outcome.                       *)
(***************************************************************************)
Outcomes == {"ok", "error", "timeout"}

OutcomeStatus(o) == IF o = "ok" THEN 200 ELSE IF o = "error" THEN 500 ELSE 504

\* Step 7 and the response: the handler is over, its kernel_id is gone.
Finish(r, st) ==
    /\ Release(r, kernel_id[r], "done")
    /\ status' = [status EXCEPT ![r] = st]
    /\ kernel_id' = [kernel_id EXCEPT ![r] = NoKernel]
    /\ UNCHANGED <<prespawn_count, managed_pool_initialized, acq_log>>

\* Steps 3-5: the REQUEST preamble and the endpoint source ran on the borrowed
\* kernel and the outputs were collected.
Source(r) ==
    /\ pc[r] = "source"
    /\ \E o \in Outcomes, hasResponseCell \in BOOLEAN :
          IF o = "ok" /\ hasResponseCell
          THEN /\ pc' = [pc EXCEPT ![r] = "metadata"]
               /\ UNCHANGED <<prespawn_count, managed_pool_initialized, kernel_pool,
                              sem_value, sem_waiters, kernel_id, status, released, acq_log>>
          ELSE Finish(r, OutcomeStatus(o))

\* Step 6: the response-metadata cell ran; it may fail as well.
Metadata(r) ==
    /\ pc[r] = "metadata"
    /\ \E o \in Outcomes : Finish(r, OutcomeStatus(o))

\* What the other parts of the model do while the pool runs: nothing.
PoolOnly == UNCHANGED <<acq_recent, mgrVars, hVars, authVars, extVars>>

Next ==
    \/ Initialize /\ PoolOnly
    \/ \E r \in Requests : Acquire(r) /\ PoolOnly
    \/ \E r \in Requests : AcquireInitialized(r) /\ PoolOnly
    \/ \E r \in Requests : AcquireResume(r) /\ PoolOnly
    \/ \E r \in Requests : Source(r) /\ PoolOnly
    \/ \E r \in Requests : Metadata(r) /\ PoolOnly

Init == InitPool /\ MgrAbsent /\ OthersAbsent

Spec == Init /\ [][Next]_vars

\* Every coroutine that can run does run; a request never stops on its own
\* between acquire and release. New requests need not arrive.
FairPool ==
    /\ WF_vars(Initialize /\ PoolOnly)
    /\ \A r \in Requests :
          /\ WF_vars(AcquireInitialized(r) /\ PoolOnly)
          /\ WF_vars(AcquireResume(r) /\ PoolOnly)
          /\ WF_vars(Source(r) /\ PoolOnly)
          /\ WF_vars(Metadata(r) /\ PoolOnly)

FairSpec == Spec /\ FairPool

(***************************************************************************)
(* SpecFifo: the pool with the history of the kernels acquire() returned.  *)
(***************************************************************************)
\* The requests to which acquire() returns a kernel in this step.
Served == {r \in Requests : pc[r] \notin Holding /\ pc'[r] \in Holding}

RecentAfter ==
    IF Served = {}
    THEN acq_recent
    ELSE LastN(Append(acq_recent, kernel_id'[CHOOSE r \in Served : TRUE]), PoolSize)

RecordRecent ==
    /\ acq_recent' = RecentAfter
    /\ UNCHANGED <<mgrVars, hVars, authVars, extVars>>

NextFifo ==
    \/ Initialize /\ RecordRecent
    \/ \E r \in Requests : Acquire(r) /\ RecordRecent
    \/ \E r \in Requests : AcquireInitialized(r) /\ RecordRecent
    \/ \E r \in Requests : AcquireResume(r) /\ RecordRecent
    \/ \E r \in Requests : Source(r) /\ RecordRecent
    \/ \E r \in Requests : Metadata(r) /\ RecordRecent

SpecFifo == Init /\ [][NextFifo]_vars

TypeOK ==
    /\ prespawn_count \in 0 .. MaxPrespawn
    /\ managed_pool_initialized \in BOOLEAN
    /\ Range(kernel_pool) \subseteq KernelIds
    /\ sem_value \in 0 .. PoolSize
    /\ Range(sem_waiters) \subseteq Requests
    /\ pc \in [Requests -> {"ready", "awaitInit", "waiting", "woken",
                            "source", "metadata", "done"}]
    /\ kernel_id \in [Requests -> KernelIds \cup {NoKernel}]

(***************************************************************************)
(* APICellParser (services/cell/parser.py).  A cell source is a sequence   *)
(* of tokens: the comment prefixes "#" and "//", "ws" for one whitespace   *)
(* character, the verbs, "ResponseInfo", a path starting with "/", and "x" *)
(* or "y" for any other text.  The indicators are matched with re.match,   *)
(* that is from the first character of the source.                         *)
(***************************************************************************)
Verbs == {"GET", "PUT", "POST", "DELETE"}
Paths == {"/p", "/hello/world", "/x/y", "/hello/:foo", "/:foo", "/:bar"}

\* kernelspec_comment_mapping with its KeyError fallback (parser.py:29-40).
CommentPrefix(kernelspec) == IF kernelspec = "scala" THEN "//" ELSE "#"

\* The first index from i on that holds no whitespace: `\s+` must advance it.
RECURSIVE SkipWs(_, _)
SkipWs(src, i) == IF i <= Len(src) /\ src[i] = "ws" THEN SkipWs(src, i + 1) ELSE i

\* `\s+(GET|PUT|POST|DELETE)\s+(\/.*)+` from index i on.
MatchVerbPath(src, i) ==
    LET b == SkipWs(src, i)
        c == SkipWs(src, b + 1)
    IN  /\ b > i
        /\ b <= Len(src)
        /\ src[b] \in Verbs
        /\ c > b + 1
        /\ c <= Len(src)
        /\ src[c] \in Paths

\* Mutation: the whitespace between the comment prefix and the verb is optional.
IsApiCellLoose(src, prefix) ==
    /\ Len(src) >= 1
    /\ src[1] = prefix
    /\ \/ MatchVerbPath(src, 2)
       \/ MatchVerbPath(<<prefix, "ws">> \o Tail(src), 2)

\* APICellParser.is_api_cell (parser.py:44-47).
IsApiCell(src, prefix) ==
    /\ Len(src) >= 1
    /\ src[1] = prefix
    /\ MatchVerbPath(src, 2)

\* APICellParser.is_api_response_cell (parser.py:49-52).
IsApiResponseCell(src, prefix) ==
    LET b == SkipWs(src, 2) IN
    /\ Len(src) >= 1
    /\ src[1] = prefix
    /\ b > 2
    /\ b <= Len(src)
    /\ src[b] = "ResponseInfo"
    /\ MatchVerbPath(src, b + 1)

(***************************************************************************)
(* The seed notebooks the model draws from: up to MaxCells cells, each a   *)
(* plain code cell, an endpoint cell, a response-metadata cell, an         *)
(* endpoint cell in the other comment syntax, a comment that lacks the     *)
(* whitespace of an indicator, or a markdown cell.                         *)
(***************************************************************************)
SpecNames == {"python3", "scala"}

CellChoices ==
    { [cell_type |-> "code", source |-> <<"x">>],
      [cell_type |-> "code", source |-> <<"y">>],
      [cell_type |-> "code", source |-> <<"#", "ws", "GET", "ws", "/p", "x">>],
      [cell_type |-> "code", source |-> <<"#", "ws", "ResponseInfo", "ws", "GET", "ws", "/p", "x">>],
      [cell_type |-> "code", source |-> <<"//", "ws", "PUT", "ws", "/p", "x">>],
      [cell_type |-> "code", source |-> <<"#", "GET", "ws", "/p", "x">>],
      [cell_type |-> "markdown", source |-> <<"x">>] }

CellLists == UNION {[1 .. n -> CellChoices] : n \in 0 .. MaxCells}

Notebooks ==
    {NoNotebook} \cup {[kernelspec |-> ks, cells |-> c] : ks \in SpecNames, c \in CellLists}

(***************************************************************************)
(* SeedingMappingKernelManager (manager.py).                               *)
(***************************************************************************)
\* seed_kernelspec (manager.py:16-33); "none" stands for None.
seed_kernelspec == seed_notebook.kernelspec

IsCode(cell) == cell.cell_type = "code"

\* seed_source (manager.py:35-55) when a seed notebook exists: the sources of
\* the code cells in cell order.  Without a notebook it is None, see HasSeedSource.
seed_source ==
    LET code == SelectSeq(seed_notebook.cells, IsCode)
    IN  [i \in 1 .. Len(code) |-> code[i].source]

HasSeedSource == seed_notebook # NoNotebook

\* manager.py:83-84: the cell is neither an API cell nor an API response cell.
ShouldSeed(code) ==
    /\ ~IsApiCell(code, CommentPrefix(seed_kernelspec))
    /\ ~IsApiResponseCell(code, CommentPrefix(seed_kernelspec))

\* manager.py:87.
ReplyFailed(st) == st # "ok"

\* Mutation: the kernel stays in the manager's map.
KernelsAfterShutdownKept(ks, kid) == ks

\* self.shutdown_kernel(kernel_id) (manager.py:91): the kernel leaves the map.
KernelsAfterShutdown(ks, kid) == ks \ {kid}

\* Mutation: the limit is compared with > instead of >=.
CapacityExceededOffByOne(count, limit) == limit # 0 /\ count > limit

\* The capacity check of POST /api/kernels (spec 4.2, Create): the limit applies
\* when max_kernels is set and the current count has reached it.
CapacityExceeded(count, limit) == limit # 0 /\ count >= limit

ShellReplies == {"ok", "error", "aborted"}

\* start_kernel, manager.py:69-79: the kernel is started and registered; if it is
\* to be seeded a client is created and its channels are started.
StartKernel(name) ==
    LET kid == next_id IN
    /\ kernels' = kernels \cup {kid}
    /\ next_id' = next_id + 1
    /\ started' = [kid |-> kid, name |-> name]
    /\ executed' = <<>>
    /\ replied' = 0
    /\ reply_status' = "none"
    /\ IF HasSeedSource /\ name = seed_kernelspec
       THEN /\ channels' = "started"
            /\ call' = [kid |-> kid, idx |-> 1, waiting |-> FALSE]
            /\ UNCHANGED response
       ELSE /\ channels' = "none"
            /\ response' = [code |-> 201, kid |-> kid]
            /\ UNCHANGED call
    /\ UNCHANGED failed

\* POST /api/kernels with the kernel spec `name`.  start_kernel blocks the
\* server's thread: no other request is handled while a call is running.
PostKernels(name) ==
    /\ call = NoCall
    /\ next_id <= MaxStarts
    /\ IF CapacityExceeded(Cardinality(kernels), max_kernels)
       THEN /\ response' = [code |-> 403, kid |-> 0]
            /\ UNCHANGED <<kernels, next_id, started, executed, replied,
                           reply_status, channels, call, failed>>
       ELSE StartKernel(name)
    /\ UNCHANGED <<seed_notebook, max_kernels>>

\* One turn of the loop of manager.py:80-85, or its end at manager.py:93-95.
SeedNext ==
    /\ call # NoCall
    /\ ~call.waiting
    /\ IF call.idx > Len(seed_source)
       THEN /\ channels' = "stopped"
            /\ response' = [code |-> 201, kid |-> call.kid]
            /\ call' = NoCall
            /\ UNCHANGED executed
       ELSE IF ShouldSeed(seed_source[call.idx])
       THEN /\ executed' = Append(executed, seed_source[call.idx])
            /\ call' = [call EXCEPT !.waiting = TRUE]
            /\ UNCHANGED <<channels, response>>
       ELSE /\ call' = [call EXCEPT !.idx = @ + 1]
            /\ UNCHANGED <<executed, channels, response>>
    /\ UNCHANGED <<seed_notebook, max_kernels, kernels, next_id, started,
                   replied, reply_status, failed>>

\* manager.py:86-92: the shell reply of the cell just sent arrives.
SeedReply ==
    /\ call # NoCall
    /\ call.waiting
    /\ \E st \in ShellReplies :
          /\ replied' = replied + 1
          /\ reply_status' = st
          /\ IF ReplyFailed(st)
             THEN /\ channels' = "stopped"
                  /\ kernels' = KernelsAfterShutdown(kernels, call.kid)
                  /\ response' = [code |-> 500, kid |-> 0]
                  /\ call' = NoCall
                  /\ failed' = failed \cup {call.kid}
             ELSE /\ call' = [call EXCEPT !.idx = @ + 1, !.waiting = FALSE]
                  /\ UNCHANGED <<channels, kernels, response, failed>>
    /\ UNCHANGED <<seed_notebook, max_kernels, next_id, started, executed>>

\* DELETE /api/kernels/<k>.
DeleteKernel(k) ==
    /\ call = NoCall
    /\ IF k \in kernels
       THEN /\ kernels' = kernels \ {k}
            /\ response' = [code |-> 204, kid |-> k]
       ELSE /\ response' = [code |-> 404, kid |-> k]
            /\ UNCHANGED kernels
    /\ UNCHANGED <<seed_notebook, max_kernels, next_id, started, executed,
                   replied, reply_status, channels, call, failed>>

ManagerOnly == UNCHANGED <<poolVars, acq_recent, hVars, authVars, extVars>>

NextManager ==
    \/ \E name \in SpecNames : PostKernels(name) /\ ManagerOnly
    \/ SeedNext /\ ManagerOnly
    \/ SeedReply /\ ManagerOnly
    \/ \E k \in Ids : DeleteKernel(k) /\ ManagerOnly

\* SpecManager: kernels are created and deleted under every limit, with no seed
\* notebook or with one of a single cell.
InitManager ==
    /\ seed_notebook \in {nb \in Notebooks : Len(nb.cells) <= 1}
    /\ max_kernels \in 0 .. MaxKernelsCfg
    /\ MgrStart
    /\ PoolAbsent
    /\ OthersAbsent

SpecManager == InitManager /\ [][NextManager]_vars

\* SpecSeeding: kernels are created, without a limit, under every seed notebook.
NextSeeding ==
    \/ \E name \in SpecNames : PostKernels(name) /\ ManagerOnly
    \/ SeedNext /\ ManagerOnly
    \/ SeedReply /\ ManagerOnly

InitSeeding ==
    /\ seed_notebook \in Notebooks
    /\ max_kernels = 0
    /\ MgrStart
    /\ PoolAbsent
    /\ OthersAbsent

SpecSeeding == InitSeeding /\ [][NextSeeding]_vars

\* MultiKernelManager.start_kernel falls back on default_kernel_name when its
\* kernel_name is None.
default_kernel_name == "python3"

\* Mutation: the kernel spec of the seed notebook is not handed on.
KernelNameDefault(name) == default_kernel_name

\* kernel.kernel_name (manager.py:74) of a kernel started with kernel_name=name.
KernelName(name) == IF name = "none" THEN default_kernel_name ELSE name

\* start_seeded_kernel (manager.py:57-63), as the kernel pools call it:
\* start_kernel(kernel_name=self.seed_kernelspec).
StartSeededKernel ==
    /\ call = NoCall
    /\ next_id <= MaxStarts
    /\ StartKernel(KernelName(seed_kernelspec))
    /\ UNCHANGED <<seed_notebook, max_kernels>>

\* SpecSeeded: kernels are started by REST clients and by start_seeded_kernel,
\* under every seed notebook.
NextSeeded ==
    \/ \E name \in SpecNames : PostKernels(name) /\ ManagerOnly
    \/ StartSeededKernel /\ ManagerOnly
    \/ SeedNext /\ ManagerOnly
    \/ SeedReply /\ ManagerOnly

SpecSeeded == InitSeeding /\ [][NextSeeded]_vars

(***************************************************************************)
(* NotebookAPIHandler (services/notebooks/handlers.py).  The handler is    *)
(* synchronous and owns one kernel client, so requests are served one      *)
(* after the other; the kernel runs beside it and publishes on iopub.      *)
(* For one execute request the kernel publishes status busy, the           *)
(* execute_input, the outputs of the code, and status idle, each with the  *)
(* request's msg_id as parent.                                             *)
(***************************************************************************)
OutputTypes == {"execute_result", "stream", "error"}

RECURSIVE SeqsUpTo(_, _)
SeqsUpTo(S, n) ==
    IF n = 0 THEN {<<>>}
    ELSE SeqsUpTo(S, n - 1) \cup
         {Append(q, x) : q \in {t \in SeqsUpTo(S, n - 1) : Len(t) = n - 1}, x \in S}

\* What a piece of code may publish: a value, text on stdout or on stderr, an
\* error.
OutputKinds == {"execute_result", "stdout", "stderr", "error"}

\* What an endpoint's source may publish.
OutputSeqs == SeqsUpTo(OutputKinds, MaxOutputs)

\* "REQUEST = '<json>'" publishes nothing, or the SyntaxError of a JSON text that
\* holds an apostrophe (handlers.py:62-67).
PreambleOutputs == {<<>>, <<"error">>}

Msg(parent, type, state) ==
    [parent |-> parent, msg_type |-> type, state |-> state, name |-> "none"]

\* The iopub message for one output: text goes out as a stream message that
\* names stdout or stderr.
OutputMsg(parent, kind) ==
    IF kind \in {"stdout", "stderr"}
    THEN [parent |-> parent, msg_type |-> "stream", state |-> "none", name |-> kind]
    ELSE Msg(parent, kind, "none")

Published(id, outputs) ==
    <<Msg(id, "status", "busy"), Msg(id, "execute_input", "none")>>
    \o [i \in 1 .. Len(outputs) |-> OutputMsg(id, outputs[i])]
    \o <<Msg(id, "status", "idle")>>

\* kernel_client.execute(code) (handlers.py:31).
Execute(outputs) ==
    /\ kernel_work' = Append(kernel_work,
                             [id |-> next_msg, todo |-> Published(next_msg, outputs)])
    /\ next_msg' = next_msg + 1

\* The message types that end the loop of _send_code (handlers.py:39-48); the
\* parent_header of the message is not looked at.
IsResult(m) == m.msg_type \in OutputTypes

\* handlers.py:35, 48.
ResultStatus(m) == IF m.msg_type = "error" THEN 500 ELSE 200

\* What result is made of (handlers.py:40, 42, 44-47): the data of an
\* execute_result, the text of a stream message whatever its name, or the error's
\* ename and evalue.
ResultBody(m) == IF m.msg_type = "stream" THEN m.name ELSE m.msg_type

\* Mutation: a request is handled as if its verb had a cell.
HasCodeAlways(code) == TRUE

\* `if source_code is None` (handlers.py:56).
HasCode(code) == code # "None"

\* _handle_request up to the first get_iopub_msg (handlers.py:55-71, 31-37).
HandleRequest(code, preamble) ==
    /\ h_pc = "idle"
    /\ reqno < MaxHttpRequests
    /\ reqno' = reqno + 1
    /\ source_code' = code
    /\ own_parent' = 0
    /\ own_outputs' = <<>>
    /\ IF ~HasCode(code)
       THEN /\ h_response' = [code |-> 405, used |-> 0, own |-> 0, body |-> "none"]
            /\ UNCHANGED <<h_pc, next_msg, kernel_work, iopub>>
       ELSE /\ Execute(preamble)
            /\ h_pc' = "preamble"
            /\ h_response' = NoHttpResponse
            /\ UNCHANGED iopub

\* The second _send_code call up to its first get_iopub_msg (handlers.py:72, 31-37).
ExecuteSource ==
    /\ \E outputs \in OutputSeqs :
          /\ Execute(outputs)
          /\ own_outputs' = outputs
    /\ own_parent' = next_msg
    /\ h_pc' = "source"

\* One turn of the loop of _send_code(request_code, False): get_iopub_msg does
\* not block and raises Empty on an empty queue (handlers.py:37-51).
PreambleGet ==
    /\ h_pc = "preamble"
    /\ IF iopub = <<>>
       THEN /\ ExecuteSource
            /\ UNCHANGED iopub
       ELSE /\ iopub' = Tail(iopub)
            /\ IF IsResult(Head(iopub))
               THEN ExecuteSource
               ELSE UNCHANGED <<h_pc, own_parent, own_outputs, next_msg, kernel_work>>
    /\ UNCHANGED <<reqno, source_code, h_response>>

\* One turn of the loop of _send_code(source_code) that gets a message, and the
\* rest of _handle_request when that message is a result (handlers.py:37-48, 72-79).
SourceGet ==
    /\ h_pc = "source"
    /\ iopub # <<>>
    /\ iopub' = Tail(iopub)
    /\ IF IsResult(Head(iopub))
       THEN /\ h_response' = [code |-> ResultStatus(Head(iopub)),
                              used |-> Head(iopub).parent,
                              own  |-> own_parent,
                              body |-> ResultBody(Head(iopub))]
            /\ h_pc' = "idle"
       ELSE UNCHANGED <<h_pc, h_response>>
    /\ UNCHANGED <<reqno, next_msg, kernel_work, own_parent, source_code, own_outputs>>

\* No message for execution_timeout seconds: Empty, and the response has no body
\* (handlers.py:49-53, 72-79).
SourceTimeout ==
    /\ h_pc = "source"
    /\ iopub = <<>>
    /\ h_response' = [code |-> 200, used |-> 0, own |-> own_parent, body |-> "none"]
    /\ h_pc' = "idle"
    /\ UNCHANGED <<reqno, next_msg, kernel_work, iopub, own_parent, source_code,
                   own_outputs>>

\* The kernel publishes the next message of its oldest execute request.
KernelPublish ==
    /\ kernel_work # <<>>
    /\ iopub' = Append(iopub, Head(Head(kernel_work).todo))
    /\ kernel_work' =
          IF Len(Head(kernel_work).todo) = 1
          THEN Tail(kernel_work)
          ELSE <<[Head(kernel_work) EXCEPT !.todo = Tail(@)]>> \o Tail(kernel_work)
    /\ UNCHANGED <<h_pc, reqno, next_msg, own_parent, source_code, own_outputs,
                   h_response>>

HandlerOnly == UNCHANGED <<poolVars, acq_recent, mgrVars, authVars, extVars>>

NextHandler ==
    \/ \E code \in {"None", "code"}, preamble \in PreambleOutputs :
          HandleRequest(code, preamble) /\ HandlerOnly
    \/ PreambleGet /\ HandlerOnly
    \/ SourceGet /\ HandlerOnly
    \/ SourceTimeout /\ HandlerOnly
    \/ KernelPublish /\ HandlerOnly

InitHandler == HandlerStart /\ PoolAbsent /\ MgrAbsent /\ AuthAbsent /\ ExtAbsent

SpecHandler == InitHandler /\ [][NextHandler]_vars

(***************************************************************************)
(* TokenAuthorizationMixin.prepare (mixins.py:64-89).  Every request gets  *)
(* a handler of its own, so status_code and is_prepared describe the       *)
(* latest request only.                                                    *)
(***************************************************************************)
header_prefix == <<"t", "o", "k", "e", "n", " ">>
header_prefix_len == Len(header_prefix)

ServerTokens == {None, Some(<<>>), Some(<<"a">>), Some(<<"a", "b">>)}

Methods == {"GET", "POST", "OPTIONS"}

\* The `token` query argument as the client sent it.
TokenArguments ==
    {None, Some(<<>>), Some(<<"a">>), Some(<<"b">>), Some(<<"a", "b">>),
     Some(<<" ", "a">>)}

\* The Authorization header as the client sent it.
AuthorizationHeaders ==
    {None, Some(<<>>),
     Some(header_prefix \o <<"a">>),
     Some(header_prefix \o <<"a", "b">>),
     Some(header_prefix \o <<"b">>),
     Some(header_prefix),
     Some(header_prefix \o <<" ", "a">>),
     Some(<<"a">>),
     Some(<<"a", "b">>),
     Some(<<"T", "o", "k", "e", "n", " ", "a">>),
     Some(<<"t", "o", "k", "e", "n", "a">>)}

\* Python's truth value of None or a string.
Truthy(v) == v.some /\ v.text # <<>>

\* str.strip() for blanks.
RECURSIVE Strip(_)
Strip(t) ==
    IF t # <<>> /\ Head(t) = " " THEN Strip(Tail(t))
    ELSE IF t # <<>> /\ t[Len(t)] = " " THEN Strip(SubSeq(t, 1, Len(t) - 1))
    ELSE t

\* self.get_argument("token", None): the default when the argument is absent,
\* else its value without surrounding blanks (mixins.py:79).
GetArgument(arg) == IF arg.some THEN Some(Strip(arg.text)) ELSE None

\* Mutation: any header that is long enough counts as having the prefix.
StartsWithAny(t, prefix) == Len(t) >= Len(prefix)

\* str.startswith (mixins.py:82).
StartsWith(t, prefix) ==
    Len(t) >= Len(prefix) /\ SubSeq(t, 1, Len(prefix)) = prefix

\* Mutation: the Authorization header is looked at first.
ClientTokenHeaderFirst(req) ==
    IF Truthy(req.authorization) /\ StartsWith(req.authorization.text, header_prefix)
    THEN Some(SubSeq(req.authorization.text, header_prefix_len + 1,
                     Len(req.authorization.text)))
    ELSE GetArgument(req.token)

\* mixins.py:79-85.
ClientToken(req) ==
    LET arg == GetArgument(req.token) IN
    IF arg # None THEN arg
    ELSE IF Truthy(req.authorization) /\ StartsWith(req.authorization.text, header_prefix)
         THEN Some(SubSeq(req.authorization.text, header_prefix_len + 1,
                          Len(req.authorization.text)))
         ELSE None

\* mixins.py:64-89.
Prepare(method, token, authorization) ==
    LET req == [method |-> method, token |-> token, authorization |-> authorization] IN
    /\ auth_request' = req
    /\ IF Truthy(server_token) /\ method # "OPTIONS" /\ ClientToken(req) # server_token
       THEN /\ status_code' = 401
            /\ is_prepared' = FALSE
       ELSE /\ status_code' = 0
            /\ is_prepared' = TRUE
    /\ UNCHANGED server_token

AuthOnly == UNCHANGED <<poolVars, acq_recent, mgrVars, hVars, extVars>>

NextAuth ==
    \E method \in Methods, token \in TokenArguments, authorization \in AuthorizationHeaders :
        Prepare(method, token, authorization) /\ AuthOnly

InitAuth ==
    /\ server_token \in ServerTokens
    /\ AuthStart
    /\ PoolAbsent
    /\ MgrAbsent
    /\ HandlerStart
    /\ ExtAbsent

SpecAuth == InitAuth /\ [][NextAuth]_vars

(***************************************************************************)
(* The environment of a kernel process.  POST /api/kernels builds the env  *)
(* it passes to start_kernel from the gateway's process environment and    *)
(* from the request; KernelGatewayIOLoopKernelManager (manager.py:97-153)  *)
(* launches and restarts the process.                                      *)
(***************************************************************************)
RequestNames == {KERNEL_FOO, KERNEL_GATEWAY, NOT_KERNEL, TEST_VAR, KG_AUTH_TOKEN}

\* The env of a create request: each name absent or set by the client.
RequestEnvs ==
    {[n \in EnvNames |-> IF n \in S THEN "c" ELSE Absent] : S \in SUBSET RequestNames}

\* Mutation: a name that holds KERNEL_ anywhere counts.
StartsWithKernelAnywhere(name) == \E i \in 1 .. Len(name) : name[i] = "KERNEL_"

StartsWithKernel(name) == Len(name) >= 1 /\ name[1] = "KERNEL_"

\* What the kernels handler hands to start_kernel as env.
CreateEnv(env) ==
    [n \in EnvNames |->
        IF n = KG_AUTH_TOKEN THEN Absent
        ELSE IF (StartsWithKernel(n) \/ n \in env_whitelist) /\ env[n] # Absent THEN env[n]
        ELSE IF n \in env_process_whitelist THEN os_environ[n]
        ELSE Absent]

\* Mutation: the marker is set only when the env has none.
LaunchKernelKeep(env) ==
    IF env[KERNEL_GATEWAY] = Absent THEN [env EXCEPT ![KERNEL_GATEWAY] = "1"] ELSE env

\* KernelGatewayIOLoopKernelManager._launch_kernel (manager.py:102-104).
LaunchKernel(env) == [env EXCEPT ![KERNEL_GATEWAY] = "1"]

\* POST /api/kernels with an env, through start_kernel (manager.py:118-120) to
\* the launch of the process.
CreateKernel(c, env) ==
    /\ launches[c] = 0
    /\ request_env' = [request_env EXCEPT ![c] = env]
    /\ launch_args' = [launch_args EXCEPT ![c] = CreateEnv(env)]
    /\ kernel_environ' = [kernel_environ EXCEPT ![c] = LaunchKernel(CreateEnv(env))]
    /\ launches' = [launches EXCEPT ![c] = 1]
    /\ UNCHANGED <<env_whitelist, env_process_whitelist, os_environ>>

\* restart_kernel (manager.py:122-153): start_kernel(**self._launch_args).
RestartKernel(c) ==
    /\ launches[c] \in 1 .. MaxLaunches - 1
    /\ kernel_environ' = [kernel_environ EXCEPT ![c] = LaunchKernel(launch_args[c])]
    /\ launches' = [launches EXCEPT ![c] = @ + 1]
    /\ UNCHANGED <<env_whitelist, env_process_whitelist, os_environ, request_env,
                   launch_args>>

EnvOnly == UNCHANGED <<poolVars, acq_recent, mgrVars, hVars, authVars, listVars, epVars, pathVars,
                       appVars>>

NextEnv ==
    \/ \E c \in Clients, env \in RequestEnvs : CreateKernel(c, env) /\ EnvOnly
    \/ \E c \in Clients : RestartKernel(c) /\ EnvOnly

InitEnv ==
    /\ env_whitelist \in {{}, {TEST_VAR}, {TEST_VAR, KG_AUTH_TOKEN}}
    /\ env_process_whitelist \in {{}, {HOME}, {HOME, KG_AUTH_TOKEN}}
    /\ \E token \in {Absent, "s"} :
          os_environ = [n \in EnvNames |->
                           IF n = HOME THEN "h"
                           ELSE IF n = KG_AUTH_TOKEN THEN token
                           ELSE Absent]
    /\ EnvStart
    /\ CoreAbsent
    /\ ListAbsent
    /\ EpAbsent
    /\ PathAbsent
    /\ AppAbsent

SpecEnv == InitEnv /\ [][NextEnv]_vars

(***************************************************************************)
(* Listing of sessions and kernels: SessionRootHandler.get                 *)
(* (services/sessions/handlers.py:18-30) and GET /api/kernels.             *)
(***************************************************************************)
ListSettings ==
    {Missing, PyFalse, PyTrue, PyValue("int", 1), PyValue("str", 1), PyValue("none", 0)}

\* Mutation: the setting is compared with ==, so 1 counts as True.
IsNotTrueByEquality(v) == ~(v.type \in {"bool", "int"} /\ v.val = 1)

\* `"kg_list_kernels" not in self.settings or self.settings[...] is not True`
\* (handlers.py:27).
IsNotTrue(v) == v = Missing \/ v # PyTrue

\* handlers.py:27-30, and the same rule for the list of kernels.
GetListing(endpoint) ==
    /\ list_response' =
          IF IsNotTrue(kg_list_kernels)
          THEN [endpoint |-> endpoint, code |-> 403, body |-> {}]
          ELSE [endpoint |-> endpoint, code |-> 200, body |-> sessions]
    /\ UNCHANGED <<kg_list_kernels, sessions>>

GetSessions == GetListing("sessions")

GetKernels == GetListing("kernels")

\* POST /api/sessions and DELETE /api/sessions/<id>.
CreateSession(x) ==
    /\ x \notin sessions
    /\ sessions' = sessions \cup {x}
    /\ UNCHANGED <<kg_list_kernels, list_response>>

DeleteSession(x) ==
    /\ x \in sessions
    /\ sessions' = sessions \ {x}
    /\ UNCHANGED <<kg_list_kernels, list_response>>

ListOnly == UNCHANGED <<poolVars, acq_recent, mgrVars, hVars, authVars, envVars, epVars, pathVars,
                       appVars>>

NextList ==
    \/ GetSessions /\ ListOnly
    \/ GetKernels /\ ListOnly
    \/ \E x \in 1 .. MaxSessions : CreateSession(x) /\ ListOnly
    \/ \E x \in 1 .. MaxSessions : DeleteSession(x) /\ ListOnly

InitList ==
    /\ kg_list_kernels \in ListSettings
    /\ ListStart
    /\ CoreAbsent
    /\ EnvAbsent
    /\ EpAbsent
    /\ PathAbsent
    /\ AppAbsent

SpecList == InitList /\ [][NextList]_vars

(***************************************************************************)
(* APICellParser.endpoints and endpoint_responses (parser.py:64-90), with  *)
(* first_path_param_index (parser.py:9-22) as the sort key.  The parser is *)
(* the one for the '#' comment syntax.                                     *)
(***************************************************************************)
\* sys.maxsize: larger than any number of '/' in a path.
maxsize == 2147483647

\* The characters of each path that matter to first_path_param_index.
PathText(p) ==
    CASE p = "/p"           -> <<"/", "p">>
      [] p = "/hello/world" -> <<"/", "h", "/", "w">>
      [] p = "/x/y"         -> <<"/", "x", "/", "y">>
      [] p = "/hello/:foo"  -> <<"/", "h", "/", ":", "f">>
      [] p = "/:foo"        -> <<"/", ":", "f">>
      [] p = "/:bar"        -> <<"/", ":", "b">>

\* str.find(':'), 1-based, 0 when there is none.
FindColon(t) ==
    IF \E i \in 1 .. Len(t) : t[i] = ":"
    THEN CHOOSE i \in 1 .. Len(t) : t[i] = ":" /\ \A j \in 1 .. i - 1 : t[j] # ":"
    ELSE 0

\* parser.py:19-22.
first_path_param_index(p) ==
    LET t == PathText(p)
        k == FindColon(t)
    IN  IF k = 0 THEN maxsize
        ELSE Cardinality({i \in 1 .. k - 1 : t[i] = "/"}) - 1

\* The cells handed to the parser.
SourceChoices ==
    { <<"x">>,
      <<"#", "ws", "GET", "ws", "/hello/world", "x">>,
      <<"#", "ws", "GET", "ws", "/x/y", "x">>,
      <<"#", "ws", "GET", "ws", "/hello/:foo", "x">>,
      <<"#", "ws", "GET", "ws", "/hello/:foo", "y">>,
      <<"#", "ws", "POST", "ws", "/hello/:foo", "x">>,
      <<"#", "ws", "GET", "ws", "/:foo", "x">>,
      <<"#", "ws", "GET", "ws", "/:bar", "x">>,
      <<"#", "GET", "ws", "/:bar", "x">>,
      <<"#", "ws", "ResponseInfo", "ws", "GET", "ws", "/hello/:foo", "x">>,
      <<"#", "ws", "ResponseInfo", "ws", "GET", "ws", "/hello/:foo", "y">>,
      <<"#", "ws", "ResponseInfo", "ws", "POST", "ws", "/:foo", "x">> }

SourceLists == UNION {[1 .. n -> SourceChoices] : n \in 0 .. MaxSourceCells}

\* is_api_cell or is_api_response_cell (parser.py:68, 83).
Matches(src, kind) ==
    IF kind = "api" THEN IsApiCell(src, "#") ELSE IsApiResponseCell(src, "#")

\* Where the verb of a matching cell stands.
VerbIndex(src, kind) ==
    IF kind = "api" THEN SkipWs(src, 2) ELSE SkipWs(src, SkipWs(src, 2) + 1)

\* matched.group(1) and matched.group(2).strip() (parser.py:70-71, 85-86).
CellVerb(src, kind) == src[VerbIndex(src, kind)]
CellUri(src, kind) == src[SkipWs(src, VerbIndex(src, kind) + 1)]

\* A dict of dicts: the uris in insertion order, and the source per uri and verb
\* (<<>> for a verb the uri has no entry for).
EmptyDict == [keys |-> <<>>, val |-> [u \in Paths, v \in Verbs |-> <<>>]]

\* Mutation: a later cell goes in front of what was gathered.
AddSourceInFront(old, src) == src \o <<"\n">> \o old

\* endpoints[uri][verb] += cell_source + '\n' (parser.py:74, 89).
AddSource(old, src) == old \o src \o <<"\n">>

\* The loops of parser.py:67-74 and 82-89.
RECURSIVE Gather(_, _, _)
Gather(cells, kind, d) ==
    IF cells = <<>> THEN d
    ELSE LET src == Head(cells) IN
         IF Matches(src, kind)
         THEN LET uri == CellUri(src, kind)
                  verb == CellVerb(src, kind)
              IN  Gather(Tail(cells), kind,
                         [keys |-> IF uri \in Range(d.keys) THEN d.keys
                                   ELSE Append(d.keys, uri),
                          val  |-> [d.val EXCEPT ![uri, verb] = AddSource(@, src)]])
         ELSE Gather(Tail(cells), kind, d)

\* Mutation: ascending order.
ComesBeforeAscending(a, b) == a < b

\* sorted(..., reverse=True): a key goes in front of the strictly smaller ones.
ComesBefore(a, b) == a > b

\* sorted(endpoints, key=sort_func, reverse=True) (parser.py:76): stable, keys of
\* equal rank keep their order.
RECURSIVE SortedKeys(_)
SortedKeys(keys) ==
    IF keys = <<>> THEN <<>>
    ELSE LET rest == SortedKeys(SubSeq(keys, 1, Len(keys) - 1))
             x == keys[Len(keys)]
             n == Cardinality({i \in 1 .. Len(rest) :
                     ~ComesBefore(first_path_param_index(x),
                                  first_path_param_index(rest[i]))})
         IN  SubSeq(rest, 1, n) \o <<x>> \o SubSeq(rest, n + 1, Len(rest))

\* APICellParser.endpoints (parser.py:64-77).
Endpoints(cells) ==
    LET d == Gather(cells, "api", EmptyDict)
        sorted_keys == SortedKeys(d.keys)
    IN  [i \in 1 .. Len(sorted_keys) |->
            [uri |-> sorted_keys[i], sources |-> [v \in Verbs |-> d.val[sorted_keys[i], v]]]]

\* APICellParser.endpoint_responses (parser.py:79-90): the dict itself.
EndpointResponses(cells) ==
    LET d == Gather(cells, "response", EmptyDict)
    IN  [i \in 1 .. Len(d.keys) |->
            [uri |-> d.keys[i], sources |-> [v \in Verbs |-> d.val[d.keys[i], v]]]]

CallEndpoints ==
    /\ endpoints = NotCalled
    /\ endpoints' = Returned(Endpoints(source_cells))
    /\ UNCHANGED <<source_cells, endpoint_responses>>

CallEndpointResponses ==
    /\ endpoint_responses = NotCalled
    /\ endpoint_responses' = Returned(EndpointResponses(source_cells))
    /\ UNCHANGED <<source_cells, endpoints>>

EpOnly == UNCHANGED <<poolVars, acq_recent, mgrVars, hVars, authVars, envVars, listVars,
                      pathVars,
                       appVars>>

NextEndpoints ==
    \/ CallEndpoints /\ EpOnly
    \/ CallEndpointResponses /\ EpOnly

InitEndpoints ==
    /\ source_cells \in SourceLists
    /\ EpStart
    /\ CoreAbsent
    /\ EnvAbsent
    /\ ListAbsent
    /\ PathAbsent
    /\ AppAbsent

SpecEndpoints == InitEndpoints /\ [][NextEndpoints]_vars

(***************************************************************************)
(* parameterize_path (notebook_http/request_utils.py:38-55).  A path is    *)
(* the sequence of its characters; in the result "(?P<" and ">[^\/]+)"     *)
(* stand for these pieces of text, neither of which holds a ':'.           *)
(***************************************************************************)
\* The segments a path is made of: literals and parameters.
Segments ==
    {<<"a">>, <<"a", "b">>, <<":", "a">>, <<":", "b">>, <<":", "a", "b">>, <<":", "b", "a">>}

RECURSIVE Join(_)
Join(segs) ==
    IF segs = <<>> THEN <<>> ELSE <<"/">> \o Head(segs) \o Join(Tail(segs))

PathChoices == {Join(segs) : segs \in UNION {[1 .. n -> Segments] : n \in 1 .. MaxSegments}}

\* The end of the name that starts at i: `[^/\s]*`.
RECURSIVE NameEnd(_, _)
NameEnd(t, i) == IF i <= Len(t) /\ t[i] # "/" THEN NameEnd(t, i + 1) ELSE i

\* re.findall(_named_param_regex, path) from index i on: the names, in order
\* (request_utils.py:11, 52).
RECURSIVE FindAll(_, _)
FindAll(t, i) ==
    IF i > Len(t) THEN <<>>
    ELSE IF t[i] = ":"
         THEN <<SubSeq(t, i + 1, NameEnd(t, i + 1) - 1)>> \o FindAll(t, NameEnd(t, i + 1))
         ELSE FindAll(t, i + 1)

\* rf"(?P<{name}>[^\/]+)" (request_utils.py:54).
NamedGroup(name) == <<"(?P<">> \o name \o <<">[^\\/]+)">>

\* str.replace(old, new): every occurrence of old, from the left.
RECURSIVE Replace(_, _, _)
Replace(t, old, new) ==
    IF Len(t) < Len(old) THEN t
    ELSE IF SubSeq(t, 1, Len(old)) = old
         THEN new \o Replace(SubSeq(t, Len(old) + 1, Len(t)), old, new)
         ELSE <<Head(t)>> \o Replace(Tail(t), old, new)

\* The loop of request_utils.py:53-54.
RECURSIVE ReplaceEach(_, _)
ReplaceEach(t, names) ==
    IF names = <<>> THEN t
    ELSE ReplaceEach(Replace(t, <<":">> \o Head(names), NamedGroup(Head(names))),
                     Tail(names))

\* request_utils.py:52-55.
parameterize_path(t) == Strip(ReplaceEach(t, FindAll(t, 1)))

CallParameterizePath ==
    /\ path_regex = NotCalled
    /\ path_regex' = Returned(parameterize_path(path))
    /\ UNCHANGED path

PathOnly == UNCHANGED <<poolVars, acq_recent, mgrVars, hVars, authVars, envVars, listVars,
                        epVars,
                       appVars>>

NextPath == CallParameterizePath /\ PathOnly

InitPath ==
    /\ path \in PathChoices
    /\ path_regex = NotCalled
    /\ CoreAbsent
    /\ EnvAbsent
    /\ ListAbsent
    /\ EpAbsent
    /\ AppAbsent

SpecPath == InitPath /\ [][NextPath]_vars

(***************************************************************************)
(* ManagedKernelPool.initialize and shutdown (pool.py:37-57, 99-118,       *)
(* 201-209) with the kernel manager's map of kernels.  Other code of the   *)
(* gateway may have started kernels of its own before shutdown is called.  *)
(***************************************************************************)
Without(ids, kid) == SelectSeq(ids, LAMBDA k : k # kid)

\* kernel_manager.start_kernel as the pool sees it: a fresh id joins the map.
StartedKernel == kernel_ids' = Append(kernel_ids, next_kid) /\ next_kid' = next_kid + 1

\* pool.py:99-106 and 37-47: the semaphore is made with its permits and the
\* start_seeded_kernel() calls are handed to asyncio.gather, which is awaited.
BeginInitialize ==
    /\ init_pc = "none"
    /\ init_pc' = "gather"
    /\ sem_value' = PoolSize
    /\ UNCHANGED <<spawn_failed, pool_initialized, kernel_clients, kernel_ids, spawned,
                   next_kid, sd_pc, sd_todo, sd_pending, channels_stopped, shutdown_calls>>
    /\ UNCHANGED <<prespawn_count, managed_pool_initialized, kernel_pool, sem_waiters, pc,
                   kernel_id, status, released, acq_log>>

\* pool.py:47: one of the gathered calls raises (the kernel does not start, or
\* seeding it fails and the manager shuts it down): the gather raises and
\* initialize ends there, while the other calls run on.
SpawnFails ==
    /\ init_pc \in {"gather", "raised"}
    /\ spawned + spawn_failed < PoolSize
    /\ spawn_failed' = spawn_failed + 1
    /\ init_pc' = "raised"
    /\ UNCHANGED <<pool_initialized, kernel_clients, kernel_ids, spawned, next_kid, sd_pc,
                   sd_todo, sd_pending, channels_stopped, shutdown_calls, poolVars>>

\* pool.py:44-47: one of the start_seeded_kernel() calls gathered by
\* KernelPool.initialize completes.
SpawnKernel ==
    /\ init_pc \in {"gather", "raised"}
    /\ spawned + spawn_failed < PoolSize
    /\ StartedKernel
    /\ spawned' = spawned + 1
    /\ UNCHANGED <<init_pc, spawn_failed, pool_initialized,
                   kernel_clients, sd_pc, sd_todo, sd_pending,
                   channels_stopped, shutdown_calls, poolVars>>

\* Mutation: the gather is over with the first kernel.
GatherDoneAtFirst == spawned >= 1

\* pool.py:47: asyncio.gather returns when every call has returned.
GatherDone == spawned = PoolSize

\* pool.py:50 and 108-118: the gather is over, pool_initialized is resolved,
\* every kernel id of the manager gets a client and managed_pool_initialized
\* is resolved, all without an await in between.
FinishInitialize ==
    /\ init_pc = "gather"
    /\ GatherDone
    /\ init_pc' = "done"
    /\ pool_initialized' = TRUE
    /\ kernel_clients' = kernel_ids
    /\ kernel_pool' = kernel_ids
    /\ managed_pool_initialized' = TRUE
    /\ UNCHANGED <<kernel_ids, spawned, spawn_failed, next_kid, sd_pc, sd_todo, sd_pending,
                   channels_stopped, shutdown_calls>>
    /\ UNCHANGED <<prespawn_count, sem_value, sem_waiters, pc, kernel_id, status,
                   released, acq_log>>

\* A kernel started through the kernel manager by other code than the pool.
CreateOutside ==
    /\ \A c \in Callers : sd_pc[c] = "none"
    /\ next_kid - spawned <= MaxOutside
    /\ StartedKernel
    /\ UNCHANGED <<init_pc, spawn_failed, pool_initialized,
                   kernel_clients, spawned, sd_pc, sd_todo, sd_pending,
                   channels_stopped, shutdown_calls, poolVars>>

\* Mutation: the loop over kernel_clients is left out.
FirstPassSkipped(c) ==
    /\ sd_pc' = [sd_pc EXCEPT ![c] = "clients"]
    /\ sd_todo' = [sd_todo EXCEPT ![c] = <<>>]

\* pool.py:204: the loop over kernel_clients starts.
FirstPass(c) ==
    /\ sd_pc' = [sd_pc EXCEPT ![c] = "clients"]
    /\ sd_todo' = [sd_todo EXCEPT ![c] = kernel_clients]

\* ManagedKernelPool.shutdown is called by c (pool.py:201-203); the await of
\* line 203 suspends it while the future is not resolved.
Shutdown(c) ==
    /\ sd_pc[c] = "none"
    /\ IF managed_pool_initialized
       THEN FirstPass(c)
       ELSE sd_pc' = [sd_pc EXCEPT ![c] = "awaitInit"] /\ UNCHANGED sd_todo
    /\ UNCHANGED <<init_pc, spawn_failed, pool_initialized,
                   kernel_clients, kernel_ids, spawned, next_kid,
                   sd_pending, channels_stopped, shutdown_calls, poolVars>>

\* The coroutine resumes from line 203.
ShutdownInitialized(c) ==
    /\ sd_pc[c] = "awaitInit"
    /\ managed_pool_initialized
    /\ FirstPass(c)
    /\ UNCHANGED <<init_pc, spawn_failed, pool_initialized,
                   kernel_clients, kernel_ids, spawned, next_kid,
                   sd_pending, channels_stopped, shutdown_calls, poolVars>>

\* kernel_manager.shutdown_kernel(kid, now=True) is called and awaited
\* (pool.py:57, 206); a kernel id the manager does not have raises.  c goes on
\* in `loop` when the call returns.
ShutdownKernel(c, kid, loop) ==
    /\ shutdown_calls' = [shutdown_calls EXCEPT ![kid] = @ + 1]
    /\ IF \E i \in 1 .. Len(kernel_ids) : kernel_ids[i] = kid
       THEN /\ sd_pending' = [sd_pending EXCEPT ![c] = kid]
            /\ sd_pc' = [sd_pc EXCEPT ![c] = loop]
       ELSE /\ sd_pending' = [sd_pending EXCEPT ![c] = NoKernel]
            /\ sd_pc' = [sd_pc EXCEPT ![c] = "raised"]

\* pool.py:204-206, one round of the loop up to its await.
ShutdownClient(c) ==
    /\ sd_pc[c] = "clients"
    /\ sd_pending[c] = NoKernel
    /\ sd_todo[c] # <<>>
    /\ channels_stopped' = channels_stopped \cup {Head(sd_todo[c])}
    /\ ShutdownKernel(c, Head(sd_todo[c]), "clients")
    /\ sd_todo' = [sd_todo EXCEPT ![c] = Tail(@)]
    /\ UNCHANGED <<init_pc, spawn_failed, pool_initialized,
                   kernel_clients, kernel_ids, spawned, next_kid,
                   poolVars>>

\* The kernel manager has shut the kernel down and removed it from its map;
\* the coroutine that awaits it may go on.
KernelShutDown(c) ==
    /\ sd_pending[c] # NoKernel
    /\ kernel_ids' = Without(kernel_ids, sd_pending[c])
    /\ sd_pending' = [sd_pending EXCEPT ![c] = NoKernel]
    /\ UNCHANGED <<init_pc, spawn_failed, pool_initialized,
                   kernel_clients, spawned, next_kid, sd_pc, sd_todo,
                   channels_stopped, shutdown_calls, poolVars>>

\* pool.py:209 and 54-55: the loop over the clients is over;
\* KernelPool.shutdown finds pool_initialized resolved and lists the kernels
\* the manager still has.
ShutdownRemaining(c) ==
    /\ sd_pc[c] = "clients"
    /\ sd_pending[c] = NoKernel
    /\ sd_todo[c] = <<>>
    /\ pool_initialized
    /\ sd_pc' = [sd_pc EXCEPT ![c] = "remaining"]
    /\ sd_todo' = [sd_todo EXCEPT ![c] = kernel_ids]
    /\ UNCHANGED <<init_pc, spawn_failed, pool_initialized,
                   kernel_clients, kernel_ids, spawned, next_kid,
                   sd_pending, channels_stopped, shutdown_calls, poolVars>>

\* pool.py:56-57, one round of the loop up to its await.
ShutdownOther(c) ==
    /\ sd_pc[c] = "remaining"
    /\ sd_pending[c] = NoKernel
    /\ sd_todo[c] # <<>>
    /\ ShutdownKernel(c, Head(sd_todo[c]), "remaining")
    /\ sd_todo' = [sd_todo EXCEPT ![c] = Tail(@)]
    /\ UNCHANGED <<init_pc, spawn_failed, pool_initialized,
                   kernel_clients, kernel_ids, spawned, next_kid,
                   channels_stopped, poolVars>>

\* Both loops are over: shutdown() returns.
ShutdownReturn(c) ==
    /\ sd_pc[c] = "remaining"
    /\ sd_pending[c] = NoKernel
    /\ sd_todo[c] = <<>>
    /\ sd_pc' = [sd_pc EXCEPT ![c] = "done"]
    /\ UNCHANGED <<init_pc, spawn_failed, pool_initialized,
                   kernel_clients, kernel_ids, spawned, next_kid,
                   sd_todo, sd_pending, channels_stopped, shutdown_calls, poolVars>>

ShutdownOnly == UNCHANGED <<acq_recent, mgrVars, hVars, authVars, envVars, listVars,
                            epVars, pathVars, cfgVars, portVars, stopVars,
                            restartVars, errVars>>

NextShutdown ==
    \/ BeginInitialize /\ ShutdownOnly
    \/ SpawnKernel /\ ShutdownOnly
    \/ FinishInitialize /\ ShutdownOnly
    \/ CreateOutside /\ ShutdownOnly
    \/ Shutdown(1) /\ ShutdownOnly
    \/ ShutdownInitialized(1) /\ ShutdownOnly
    \/ ShutdownClient(1) /\ ShutdownOnly
    \/ KernelShutDown(1) /\ ShutdownOnly
    \/ ShutdownRemaining(1) /\ ShutdownOnly
    \/ ShutdownOther(1) /\ ShutdownOnly
    \/ ShutdownReturn(1) /\ ShutdownOnly

InitShutdown ==
    /\ InitPool
    /\ SdStart
    /\ MgrAbsent
    /\ HandlerStart
    /\ AuthAbsent
    /\ ExtBaseAbsent
    /\ CfgAbsent
    /\ PortAbsent
    /\ StopAbsent
    /\ RestartAbsent
    /\ ErrAbsent

SpecShutdown == InitShutdown /\ [][NextShutdown]_vars

(***************************************************************************)
(* SpecLife: the pool from its construction to its shutdown, with the      *)
(* notebook-HTTP requests that borrow from it.  initialize() runs as a     *)
(* task of its own and may raise; requests arrive at any time.             *)
(***************************************************************************)
LifeOnly == UNCHANGED <<acq_recent, mgrVars, hVars, authVars, envVars, listVars, epVars,
                        pathVars, cfgVars, portVars, stopVars, restartVars, errVars>>

NextLife ==
    \/ BeginInitialize /\ LifeOnly
    \/ SpawnKernel /\ LifeOnly
    \/ SpawnFails /\ LifeOnly
    \/ FinishInitialize /\ LifeOnly
    \/ \E r \in Requests : Acquire(r) /\ UNCHANGED sdVars /\ LifeOnly
    \/ \E r \in Requests : AcquireInitialized(r) /\ UNCHANGED sdVars /\ LifeOnly
    \/ \E r \in Requests : AcquireResume(r) /\ UNCHANGED sdVars /\ LifeOnly
    \/ \E r \in Requests : Source(r) /\ UNCHANGED sdVars /\ LifeOnly
    \/ \E r \in Requests : Metadata(r) /\ UNCHANGED sdVars /\ LifeOnly
    \/ Shutdown(1) /\ LifeOnly
    \/ ShutdownInitialized(1) /\ LifeOnly
    \/ ShutdownClient(1) /\ LifeOnly
    \/ KernelShutDown(1) /\ LifeOnly
    \/ ShutdownRemaining(1) /\ LifeOnly
    \/ ShutdownReturn(1) /\ LifeOnly

SpecLife == InitShutdown /\ [][NextLife]_vars

\* Every task and coroutine that can run does run, and each gathered
\* start_seeded_kernel call ends, with a kernel or with an exception.  Requests
\* need not arrive and shutdown need not be called.
FairLife ==
    /\ WF_vars(BeginInitialize /\ LifeOnly)
    /\ WF_vars((SpawnKernel \/ SpawnFails) /\ LifeOnly)
    /\ WF_vars(FinishInitialize /\ LifeOnly)
    /\ \A r \in Requests :
          /\ WF_vars(AcquireInitialized(r) /\ UNCHANGED sdVars /\ LifeOnly)
          /\ WF_vars(AcquireResume(r) /\ UNCHANGED sdVars /\ LifeOnly)
          /\ WF_vars(Source(r) /\ UNCHANGED sdVars /\ LifeOnly)
          /\ WF_vars(Metadata(r) /\ UNCHANGED sdVars /\ LifeOnly)
    /\ WF_vars(ShutdownInitialized(1) /\ LifeOnly)
    /\ WF_vars(ShutdownClient(1) /\ LifeOnly)
    /\ WF_vars(KernelShutDown(1) /\ LifeOnly)
    /\ WF_vars(ShutdownRemaining(1) /\ LifeOnly)
    /\ WF_vars(ShutdownReturn(1) /\ LifeOnly)

FairSpecLife == SpecLife /\ FairLife

(***************************************************************************)
(* KernelGatewayApp.init_configurables (gatewayapp.py:540-594): the check  *)
(* of prespawn_count against max_kernels, the personality, and the         *)
(* prespawn its pool does once the IO loop runs the scheduled              *)
(* personality.init_configurables().                                       *)
(***************************************************************************)
Apis == {"kernel_gateway.jupyter_websocket", "kernel_gateway.notebook_http"}

\* Python's truth value of an Integer trait that allows None.
IsTrue(v) == v # Unset /\ v # 0

\* gatewayapp.py:583-584.
PrespawnConflict(count, limit) ==
    /\ IsTrue(count)
    /\ IsTrue(limit) /\ count > limit

\* The number of kernels the personality's pool spawns: KernelPool.initialize
\* (pool.py:40-45) for jupyter-websocket, ManagedKernelPool.initialize
\* (pool.py:101-106) for notebook-http.
Prespawned ==
    IF IsTrue(app_prespawn_count) THEN app_prespawn_count
    ELSE IF api = "kernel_gateway.notebook_http" THEN 1 ELSE 0

InitConfigurables ==
    /\ app_pc = "new"
    /\ IF PrespawnConflict(app_prespawn_count, app_max_kernels)
       THEN app_pc' = "RuntimeError" /\ UNCHANGED personality
       ELSE app_pc' = "configured" /\ personality' = api
    /\ UNCHANGED <<app_prespawn_count, app_max_kernels, api, app_spawned>>

\* The callback scheduled at gatewayapp.py:592-594 runs the pool's initialize,
\* which starts its kernels.
Prespawn ==
    /\ app_pc = "configured"
    /\ personality # "none"
    /\ IF app_spawned < Prespawned
       THEN app_spawned' = app_spawned + 1 /\ UNCHANGED app_pc
       ELSE app_pc' = "initialized" /\ UNCHANGED app_spawned
    /\ UNCHANGED <<app_prespawn_count, app_max_kernels, api, personality>>

ConfigurablesOnly == UNCHANGED <<poolVars, acq_recent, mgrVars, hVars, authVars, envVars,
                                 listVars, epVars, pathVars, sdVars, portVars,
                                 stopVars, restartVars, errVars>>

NextConfigurables ==
    \/ InitConfigurables /\ ConfigurablesOnly
    \/ Prespawn /\ ConfigurablesOnly

InitConfigurablesSpec ==
    /\ app_prespawn_count \in {Unset} \cup (0 .. MaxPrespawn)
    /\ app_max_kernels \in {Unset} \cup (0 .. MaxKernelsCfg)
    /\ api \in Apis
    /\ CfgStart
    /\ CoreAbsent
    /\ ExtBaseAbsent
    /\ SdStart
    /\ PortAbsent
    /\ StopAbsent
    /\ RestartAbsent
    /\ ErrAbsent

SpecConfigurables == InitConfigurablesSpec /\ [][NextConfigurables]_vars

(***************************************************************************)
(* KernelGatewayApp.init_http_server (gatewayapp.py:681-713): the loop     *)
(* over random_ports(self.port, self.port_retries + 1).                    *)
(***************************************************************************)
ConfiguredPorts == {1, 100}

\* What http_server.listen(port, ip) may do: succeed, or raise OSError with
\* one of these errno values.
Errnos == {"ok", "EADDRINUSE", "EACCES", "EIO"}

Min(a, b) == IF a < b THEN a ELSE b
Max(a, b) == IF a > b THEN a ELSE b

\* jupyter_server's random_ports(port, n), candidate number i (from 0): the
\* first min(5, n) candidates are port, port + 1, ...; each of the n - 5
\* others is max(1, port + randint(-2 * n, 2 * n)).
RandomPorts(p, n, i) ==
    IF i < Min(5, n)
    THEN {p + i}
    ELSE {Max(1, p + d) : d \in (0 - 2 * n) .. (2 * n)}

\* Mutation: every OSError moves on to the next candidate.
RetryableAny(errno) == errno # "ok"

\* gatewayapp.py:697-702.
Retryable(errno) == errno \in {"EADDRINUSE", "EACCES"}

\* One round of the loop of gatewayapp.py:693-713, with the for-else that
\* follows the last candidate.
TryListen ==
    /\ srv_pc = "new"
    /\ Len(tried) < port_retries + 1
    /\ \E p \in RandomPorts(configured_port, port_retries + 1, Len(tried)),
          errno \in Errnos :
          /\ tried' = Append(tried, [port |-> p, errno |-> errno])
          /\ IF errno = "ok"
             THEN /\ listening' = listening \cup {p}
                  /\ port' = p
                  /\ srv_pc' = "listening"
             ELSE /\ UNCHANGED <<listening, port>>
                  /\ srv_pc' = IF ~Retryable(errno) THEN "OSError"
                               ELSE IF Len(tried) + 1 = port_retries + 1 THEN "exit(1)"
                               ELSE "new"
    /\ UNCHANGED <<configured_port, port_retries>>

HttpServerOnly == UNCHANGED <<poolVars, acq_recent, mgrVars, hVars, authVars, envVars,
                              listVars, epVars, pathVars, sdVars, cfgVars, stopVars,
                              restartVars, errVars>>

NextHttpServer == TryListen /\ HttpServerOnly

InitHttpServer ==
    /\ configured_port \in ConfiguredPorts
    /\ port_retries \in 0 .. MaxPortRetries
    /\ PortStart
    /\ CoreAbsent
    /\ ExtBaseAbsent
    /\ SdStart
    /\ CfgAbsent
    /\ StopAbsent
    /\ RestartAbsent
    /\ ErrAbsent

SpecHttpServer == InitHttpServer /\ [][NextHttpServer]_vars

(***************************************************************************)
(* Signals and stop (gatewayapp.py:719-829).  The main thread sits in      *)
(* io_loop.start(); signal handlers run in the main thread, _confirm_exit  *)
(* in a thread of its own, _restore_sigint_handler and _stop as callbacks  *)
(* of the IO loop.  personality.shutdown() awaits the pool's shutdown().   *)
(***************************************************************************)
\* Lines the user may type at the prompt, as sequences of characters.
Answers == {<<"y">>, <<"Y">>, <<"y", "e", "s">>, <<"n">>, <<"n", "o">>, <<>>,
            <<"y", "e", "s", " ", "n", "o", "w">>, <<"y", "e", "s", " ", "N">>}

\* str.lower on the characters that matter to the prompt.
LowerChar(ch) == IF ch = "Y" THEN "y" ELSE IF ch = "N" THEN "n" ELSE ch

Lower(line) == [i \in 1 .. Len(line) |-> LowerChar(line[i])]

Contains(line, ch) == \E i \in 1 .. Len(line) : line[i] = ch

\* Mutation: any line that starts with y confirms.
ConfirmsByFirstLetter(line) == line # <<>> /\ Lower(line)[1] = "y"

\* gatewayapp.py:765: line.lower().startswith(yes) and no not in line.lower().
Confirms(line) ==
    /\ line # <<>> /\ Lower(line)[1] = "y"
    /\ ~Contains(Lower(line), "n")

\* KernelGatewayApp.stop called from signal handling (gatewayapp.py:818-829):
\* the HTTP server stops and _stop is handed to the IO loop.
Stop(by) ==
    /\ stop_calls < MaxStops
    /\ http_server' = "stopped"
    /\ stop_calls' = stop_calls + 1
    /\ stop_pc' = [stop_pc EXCEPT ![stop_calls + 1] = "queued"]
    /\ cause' = [cause EXCEPT ![stop_calls + 1] = by]

NoStop == UNCHANGED <<http_server, stop_calls, stop_pc, cause>>

\* SIGINT arrives while the main thread is in io_loop.start().
Sigint ==
    /\ main_pc = "io_loop.start"
    /\ io_loop = "running"
    /\ IF sigint_handler = "_handle_sigint"
       THEN \* gatewayapp.py:727-735
            /\ confirm = "none"
            /\ sigint_handler' = "_signal_stop"
            /\ confirm' = "started"
            /\ NoStop
            /\ UNCHANGED <<io_loop, main_pc, finally_stop>>
       ELSE IF sigint_handler = "_signal_stop"
       THEN \* gatewayapp.py:780-783
            /\ Stop("SIGINT")
            /\ UNCHANGED <<sigint_handler, confirm, io_loop, main_pc, finally_stop>>
       ELSE \* KeyboardInterrupt out of io_loop.start(); gatewayapp.py:806-809
            /\ io_loop' = "interrupted"
            /\ main_pc' = "returned"
            /\ http_server' = "stopped"
            /\ finally_stop' = TRUE
            /\ UNCHANGED <<sigint_handler, confirm, stop_calls, stop_pc, cause>>
    /\ UNCHANGED <<interactive, answer_yes, answer, restore_queued, ws_open, sdVars,
                   poolVars>>

\* SIGTERM: _signal_stop (gatewayapp.py:723, 780-783, 802).
Sigterm ==
    /\ main_pc = "io_loop.start"
    /\ io_loop = "running"
    /\ Stop("SIGTERM")
    /\ UNCHANGED <<interactive, answer_yes, sigint_handler, confirm, answer,
                   restore_queued, io_loop, main_pc, finally_stop, ws_open, sdVars,
                   poolVars>>

\* The thread of _confirm_exit starts (gatewayapp.py:741-762).
ConfirmExit ==
    /\ confirm = "started"
    /\ IF answer_yes
       THEN Stop("answer_yes") /\ confirm' = "none"
       ELSE NoStop /\ confirm' = "select"
    /\ UNCHANGED <<interactive, answer_yes, sigint_handler, answer, restore_queued,
                   io_loop, main_pc, finally_stop, ws_open, sdVars, poolVars>>

\* A line is read within 5 s (gatewayapp.py:763-778).
ConfirmAnswer(line) ==
    /\ confirm = "select"
    /\ answer' = line
    /\ confirm' = "none"
    /\ IF Confirms(line)
       THEN Stop("answer") /\ UNCHANGED restore_queued
       ELSE NoStop /\ restore_queued' = TRUE
    /\ UNCHANGED <<interactive, answer_yes, sigint_handler, io_loop, main_pc,
                   finally_stop, ws_open, sdVars, poolVars>>

\* No line within 5 s (gatewayapp.py:771-778).
ConfirmTimeout ==
    /\ confirm = "select"
    /\ answer' = NoAnswer
    /\ confirm' = "none"
    /\ restore_queued' = TRUE
    /\ NoStop
    /\ UNCHANGED <<interactive, answer_yes, sigint_handler, io_loop, main_pc,
                   finally_stop, ws_open, sdVars, poolVars>>

\* The IO loop runs _restore_sigint_handler (gatewayapp.py:737-739).
RestoreSigintHandler ==
    /\ io_loop = "running"
    /\ restore_queued
    /\ restore_queued' = FALSE
    /\ sigint_handler' = "_handle_sigint"
    /\ NoStop
    /\ UNCHANGED <<interactive, answer_yes, confirm, answer, io_loop, main_pc,
                   finally_stop, ws_open, sdVars, poolVars>>

StopFrame == UNCHANGED <<interactive, answer_yes, sigint_handler, confirm, answer,
                         restore_queued, http_server, io_loop, main_pc, stop_calls,
                         cause, finally_stop, ws_open>>

\* The IO loop runs _stop up to its first await (gatewayapp.py:811-813).
RunStop(c) ==
    /\ io_loop = "running"
    /\ stop_pc[c] = "queued"
    /\ stop_pc' = [stop_pc EXCEPT ![c] = "personality.shutdown"]
    /\ Shutdown(c)
    /\ UNCHANGED <<interactive, answer_yes, sigint_handler, confirm, answer,
                   restore_queued, http_server, io_loop, main_pc, stop_calls, cause,
                   finally_stop, ws_open>>

\* A step of the pool's shutdown() under _stop, or of the pool's
\* initialize(), on the IO loop.
OnLoop(step) ==
    /\ io_loop = "running"
    /\ step
    /\ StopFrame
    /\ UNCHANGED stop_pc

\* personality.shutdown() has returned: close_all() is awaited
\* (gatewayapp.py:814).
CloseAll(c) ==
    /\ io_loop = "running"
    /\ stop_pc[c] = "personality.shutdown"
    /\ sd_pc[c] = "done"
    /\ stop_pc' = [stop_pc EXCEPT ![c] = "close_all"]
    /\ ws_open' = FALSE
    /\ UNCHANGED <<interactive, answer_yes, sigint_handler, confirm, answer,
                   restore_queued, http_server, io_loop, main_pc, stop_calls, cause,
                   finally_stop, sdVars, poolVars>>

\* gatewayapp.py:815-816.
StopLoop(c) ==
    /\ io_loop = "running"
    /\ stop_pc[c] = "close_all"
    /\ stop_pc' = [stop_pc EXCEPT ![c] = "done"]
    /\ io_loop' = "stopped"
    /\ UNCHANGED <<interactive, answer_yes, sigint_handler, confirm, answer,
                   restore_queued, http_server, main_pc, stop_calls, cause,
                   finally_stop, ws_open, sdVars, poolVars>>

\* io_loop.start() returns and the finally block calls stop()
\* (gatewayapp.py:808-809, 818-829): its _stop is queued on a loop that no
\* longer runs.
StartReturns ==
    /\ main_pc = "io_loop.start"
    /\ io_loop = "stopped"
    /\ main_pc' = "returned"
    /\ http_server' = "stopped"
    /\ finally_stop' = TRUE
    /\ UNCHANGED <<interactive, answer_yes, sigint_handler, confirm, answer,
                   restore_queued, io_loop, stop_calls, stop_pc, cause, ws_open, sdVars,
                   poolVars>>

StopOnly == UNCHANGED <<acq_recent, mgrVars, hVars, authVars, envVars, listVars, epVars,
                        pathVars, cfgVars, portVars, restartVars, errVars>>

NextStop ==
    \/ Sigint /\ StopOnly
    \/ Sigterm /\ StopOnly
    \/ ConfirmExit /\ StopOnly
    \/ \E line \in Answers : ConfirmAnswer(line) /\ StopOnly
    \/ ConfirmTimeout /\ StopOnly
    \/ RestoreSigintHandler /\ StopOnly
    \/ \E c \in Callers : RunStop(c) /\ StopOnly
    \/ OnLoop(BeginInitialize) /\ StopOnly
    \/ OnLoop(SpawnKernel) /\ StopOnly
    \/ OnLoop(FinishInitialize) /\ StopOnly
    \/ OnLoop(CreateOutside) /\ StopOnly
    \/ \E c \in Callers : OnLoop(ShutdownInitialized(c)) /\ StopOnly
    \/ \E c \in Callers : OnLoop(ShutdownClient(c)) /\ StopOnly
    \/ \E c \in Callers : OnLoop(KernelShutDown(c)) /\ StopOnly
    \/ \E c \in Callers : OnLoop(ShutdownRemaining(c)) /\ StopOnly
    \/ \E c \in Callers : OnLoop(ShutdownOther(c)) /\ StopOnly
    \/ \E c \in Callers : OnLoop(ShutdownReturn(c)) /\ StopOnly
    \/ \E c \in Callers : CloseAll(c) /\ StopOnly
    \/ \E c \in Callers : StopLoop(c) /\ StopOnly
    \/ StartReturns /\ StopOnly

InitStop ==
    /\ interactive \in BOOLEAN
    /\ answer_yes \in BOOLEAN
    /\ StopStart
    /\ InitPool
    /\ SdStart
    /\ MgrAbsent
    /\ HandlerStart
    /\ AuthAbsent
    /\ ExtBaseAbsent
    /\ CfgAbsent
    /\ PortAbsent
    /\ RestartAbsent
    /\ ErrAbsent

SpecStop == InitStop /\ [][NextStop]_vars

(***************************************************************************)
(* KernelGatewayIOLoopKernelManager (services/kernels/manager.py:106-153). *)
(* The manager's methods are synchronous.  Of the inherited KernelManager  *)
(* the model keeps what restart_kernel relies on: start_kernel writes a    *)
(* connection file unless one is there, stores its kw as _launch_args and  *)
(* launches the kernel; shutdown_kernel ends the kernel and removes the    *)
(* connection file unless restart is true.                                 *)
(***************************************************************************)
\* dict.update (manager.py:152).
Update(args, kw) == [k \in ArgKeys |-> IF kw[k] # "absent" THEN kw[k] ELSE args[k]]

\* What a launch may come to: the kernel process runs, or the launch raises.
LaunchOutcomes == {"running", "none"}

Called(name) == km_calls' = [km_calls EXCEPT ![name] = @ + 1]

\* super().start_kernel(**kw) with connection file `file` at hand.
SuperStartKernel(kw, file, outcome) ==
    /\ connection_file' = (IF file # 0 THEN file ELSE files_written + 1)
    /\ files_written' = (IF file # 0 THEN files_written ELSE files_written + 1)
    /\ km_launch_args' = [set |-> TRUE, kw |-> kw]
    /\ kernel' = outcome
    /\ last_start' = kw
    /\ raised' = (IF outcome = "none" THEN "launch failed" ELSE "none")

\* manager.py:120-122.
KmStartKernel(kw, outcome) ==
    /\ kernel = "none"
    /\ km_calls.start_kernel < MaxRestarts
    /\ has_kernel_started' = FALSE
    /\ SuperStartKernel(kw, connection_file, outcome)
    /\ Called("start_kernel")
    /\ UNCHANGED <<last_shutdown, last_kw>>

\* manager.py:108-118.
IsAlive ==
    /\ km_calls.is_alive < MaxRestarts
    /\ has_kernel_started' = (IF kernel = "running" THEN TRUE ELSE has_kernel_started)
    /\ raised' = "none"
    /\ Called("is_alive")
    /\ UNCHANGED <<km_launch_args, kernel, connection_file, files_written, last_shutdown,
                   last_start, last_kw>>

\* The kernel process ends by itself.
KernelExits ==
    /\ kernel = "running"
    /\ kernel' = "exited"
    /\ UNCHANGED <<has_kernel_started, km_launch_args, connection_file, files_written,
                   km_calls, last_shutdown, last_start, last_kw, raised>>

\* Mutation: the old kernel is always shut down with restart=True.
RestartFlagAlways == TRUE

\* manager.py:146-150: the restart argument of shutdown_kernel.
RestartFlag == has_kernel_started

\* manager.py:124-153.
KmRestartKernel(now, kw, outcome) ==
    /\ km_calls.restart_kernel < MaxRestarts
    /\ last_kw' = kw
    /\ IF ~km_launch_args.set
       THEN /\ raised' = "RuntimeError"
            /\ Called("restart_kernel")
            /\ UNCHANGED <<has_kernel_started, km_launch_args, kernel, connection_file,
                           files_written, last_shutdown, last_start>>
       ELSE /\ last_shutdown' = [called |-> TRUE, now |-> now, restart |-> RestartFlag]
            /\ has_kernel_started' = FALSE
            /\ SuperStartKernel(Update(km_launch_args.kw, kw),
                                IF RestartFlag THEN connection_file ELSE 0, outcome)
            /\ km_calls' = [km_calls EXCEPT !.restart_kernel = @ + 1,
                                            !.shutdown_kernel = @ + 1,
                                            !.start_kernel = @ + 1]

RestartOnly == UNCHANGED <<poolVars, acq_recent, mgrVars, hVars, authVars, envVars,
                           listVars, epVars, pathVars, sdVars, cfgVars, portVars,
                           stopVars, errVars>>

NextRestart ==
    \/ \E kw \in Kws, outcome \in LaunchOutcomes : KmStartKernel(kw, outcome) /\ RestartOnly
    \/ IsAlive /\ RestartOnly
    \/ KernelExits /\ RestartOnly
    \/ \E now \in BOOLEAN, kw \in Kws, outcome \in LaunchOutcomes :
           KmRestartKernel(now, kw, outcome) /\ RestartOnly

InitRestart ==
    /\ RestartStart
    /\ CoreAbsent
    /\ ExtBaseAbsent
    /\ SdStart
    /\ CfgAbsent
    /\ PortAbsent
    /\ StopAbsent
    /\ ErrAbsent

SpecRestart == InitRestart /\ [][NextRestart]_vars

(***************************************************************************)
(* JSONErrorsMixin.write_error (mixins.py:97-139).  Texts are sequences of *)
(* words; the body is the JSON object as its set of <<key, value>> pairs.  *)
(***************************************************************************)
StatusCodes == {400, 401, 403, 404, 410, 500, 599}

\* http.client.responses, as far as the model's status codes go; 599 is not
\* in it.
responses ==
    [c \in {400, 401, 403, 404, 410, 500} |->
        CASE c = 400 -> <<"Bad", "Request">>
          [] c = 401 -> <<"Unauthorized">>
          [] c = 403 -> <<"Forbidden">>
          [] c = 404 -> <<"Not", "Found">>
          [] c = 410 -> <<"Gone">>
          [] c = 500 -> <<"Internal", "Server", "Error">>]

\* dict.get(key, default).
DictGet(d, key, default) == IF key \in DOMAIN d THEN d[key] ELSE default

\* exc_info[1]: no exception, a web.HTTPError with its log_message and reason,
\* or another exception, with or without an attribute `reason`.
Texts == {None, Some(<<>>), Some(<<"fake">>), Some(<<"bad", "%s">>)}

Exceptions ==
    {NoException}
    \cup {[kind |-> "HTTPError", log_message |-> m, reason |-> r] :
             m \in Texts, r \in {None, Some(<<>>), Some(<<"fake-reason">>)}}
    \cup {[kind |-> "Exception", log_message |-> None, reason |-> r] :
             r \in {None, Some(<<>>), Some(<<"fake-reason">>)}}

\* Mutation: only an HTTPError's reason is looked at.
CustomReasonOfHTTPError(exception) ==
    IF exception.kind = "HTTPError" /\ exception.reason.some
    THEN exception.reason.text
    ELSE <<>>

\* getattr(exception, "reason", "") (mixins.py:132); None stays falsy.
CustomReason(exception) ==
    IF exception.reason.some THEN exception.reason.text ELSE <<>>

\* mixins.py:124-130.
Message(exception) ==
    IF exception.kind = "HTTPError"
    THEN (IF Truthy(exception.log_message) THEN exception.log_message.text ELSE <<>>)
    ELSE <<"Unknown", "server", "error">>

\* mixins.py:116-135: the reply dictionary.
Reply(code, exception) ==
    LET reason == DictGet(responses, code, <<"Unknown", "HTTP", "Error">>)
        plain == {<<"reason", reason>>, <<"message", <<>> >>}
    IN  IF exception.kind = "none" THEN plain
        ELSE {<<"reason", IF CustomReason(exception) # <<>>
                          THEN CustomReason(exception) ELSE reason>>,
              <<"message", Message(exception)>>}
             \cup (IF exception.kind = "HTTPError" THEN {}
                   ELSE {<<"traceback", <<"Traceback">> >>})

\* The value of `key` in a JSON object.
Field(obj, key) == (CHOOSE kv \in obj : kv[1] = key)[2]

\* mixins.py:97-139.
WriteError(code, exception) ==
    /\ error_call' = [status_code |-> code, exception |-> exception]
    /\ error_response' =
          [content_type |-> "application/json",
           status |-> code,
           status_reason |-> Field(Reply(code, exception), "reason"),
           body |-> Reply(code, exception)]

ErrorsOnly == UNCHANGED <<poolVars, acq_recent, mgrVars, hVars, authVars, envVars,
                          listVars, epVars, pathVars, sdVars, cfgVars, portVars,
                          stopVars, restartVars>>

NextErrors ==
    \E code \in StatusCodes, exception \in Exceptions :
        WriteError(code, exception) /\ ErrorsOnly

InitErrors ==
    /\ ErrAbsent
    /\ CoreAbsent
    /\ ExtBaseAbsent
    /\ SdStart
    /\ CfgAbsent
    /\ PortAbsent
    /\ StopAbsent
    /\ RestartAbsent

SpecErrors == InitErrors /\ [][NextErrors]_vars

(***************************************************************************)
(* C1.  No kernel is held by two borrowers at once: between an acquire()   *)
(* that returned kernel k and the matching release(k) no other acquire()   *)
(* returns k, under every interleaving of requests that each release the   *)
(* kernel they acquired.                                                   *)
(***************************************************************************)
C1_ExclusiveKernel ==
    \A r1, r2 \in InFlight : r1 # r2 => kernel_id[r1] # kernel_id[r2]

\* Two requests hold kernels at the same time while a third waits for one.
C1_Witness ==
    /\ Cardinality(InFlight) >= 2
    /\ sem_waiters # <<>>

(***************************************************************************)
(* C2.  For a pool initialised with N kernels, in every state between the  *)
(* steps of acquire() and release(): the length of the free list plus the  *)
(* number of borrowed kernels is N, no kernel id is twice in the free      *)
(* list, and the free and the borrowed kernels together are the N kernels. *)
(***************************************************************************)
C2_FreePlusBorrowed ==
    managed_pool_initialized =>
        /\ Len(kernel_pool) + Cardinality(InFlight) = PoolSize
        /\ NoDup(kernel_pool)
        /\ Range(kernel_pool) \cup {kernel_id[r] : r \in InFlight} = KernelIds

\* A kernel is borrowed, another is free, and one has been released before.
C2_Witness ==
    /\ managed_pool_initialized
    /\ InFlight # {}
    /\ kernel_pool # <<>>
    /\ \E r \in Requests : pc[r] = "done"

(***************************************************************************)
(* C3.  The free list is a FIFO: every acquire() that returns hands out    *)
(* the head of kernel_pool and removes it, every release() appends the     *)
(* kernel at the tail; hence requests that are served one after the other  *)
(* (each acquire() made while the whole pool is free) land on distinct     *)
(* kernels until all PoolSize kernels have served once.                    *)
(***************************************************************************)
C3_FifoStep ==
    /\ \A r \in Requests :
          /\ (pc[r] \notin Holding /\ pc'[r] \in Holding) =>
                /\ kernel_pool # <<>>
                /\ kernel_id'[r] = Head(kernel_pool)
                /\ kernel_pool' = Tail(kernel_pool)
          /\ (pc[r] \in Holding /\ pc'[r] = "done") =>
                kernel_pool' = Append(kernel_pool, kernel_id[r])
    /\ NoDup(acq_log')

C3_Fifo == [][C3_FifoStep]_vars

\* PoolSize >= 2 requests in a row were served one after the other, each by
\* another kernel, and the pool is complete again.
C3_Witness ==
    /\ PoolSize >= 2
    /\ Len(acq_log) = PoolSize
    /\ Len(kernel_pool) = PoolSize

\* C3 as stated, for any PoolSize consecutive requests, overlapping or not:
\* the kernels returned by the latest PoolSize acquire() calls are distinct.
C3_AnyConsecutiveDistinct == NoDup(acq_recent)

(***************************************************************************)
(* C4.  acquire() does not return while no kernel is free, and the kernel  *)
(* it returns is not borrowed by another request; each release() lets      *)
(* exactly one waiting acquire() proceed, the oldest, when there is one;   *)
(* and, every borrowed kernel being released eventually, every blocked     *)
(* acquire() eventually returns.                                           *)
(***************************************************************************)
Blocked == {"awaitInit", "waiting", "woken"}

C4_Step ==
    /\ \A r \in Requests :
          (pc[r] \notin Holding /\ pc'[r] \in Holding) =>
              /\ kernel_pool # <<>>
              /\ kernel_id'[r] \notin {kernel_id[q] : q \in InFlight}
    /\ \A r \in Requests :
          (pc[r] \in Holding /\ pc'[r] = "done") =>
              {q \in Requests : pc[q] = "waiting" /\ pc'[q] # "waiting"}
                 = (IF sem_waiters = <<>> THEN {} ELSE {Head(sem_waiters)})
    /\ (\A r \in Requests : ~(pc[r] \in Holding /\ pc'[r] = "done")) =>
          \A q \in Requests : pc[q] = "waiting" => pc'[q] = "waiting"

C5_ReleasedOnce ==
    \A r \in Requests :
        /\ pc[r] \in Holding => released[r] = 0
        /\ pc[r] = "done" => released[r] = 1 /\ status[r] \in {200, 500, 504}

C5_AllBack ==
    (managed_pool_initialized /\ \A r \in Requests : pc[r] \in {"ready", "done", "awaitInit"}) =>
        /\ Len(kernel_pool) = PoolSize
        /\ Range(kernel_pool) = KernelIds

BelowLimit == max_kernels = 0 \/ Cardinality(kernels) < max_kernels

C6_Step ==
    /\ next_id' # next_id =>
          /\ BelowLimit
          /\ kernels' = kernels \cup {next_id}
    /\ (response' # response /\ response'.code = 403) =>
          /\ ~BelowLimit
          /\ kernels' = kernels
          /\ next_id' = next_id
    /\ (response' # response /\ response'.code = 201) =>
          response'.kid \in kernels'

C6_MaxKernels ==
    /\ [](max_kernels # 0 => Cardinality(kernels) <= max_kernels)
    /\ [][C6_Step]_vars

\* With a limit of 1: a kernel was created, a second POST was refused, the kernel
\* was deleted, and the next POST has been answered 201 with a new kernel.
C6_Witness ==
    /\ max_kernels = 1
    /\ kernels = {2}
    /\ response = [code |-> 201, kid |-> 2]

(***************************************************************************)
(* C7.  When the shell reply of a seed cell has a status other than 'ok':  *)
(* no later seed cell is sent, the client's channels are stopped, the      *)
(* kernel is removed from the manager, and start_kernel raises (the        *)
(* request is answered 500, no id is returned).  The failed kernel is in   *)
(* no later listing of the manager's kernels.                              *)
(***************************************************************************)
C7_Inv ==
    /\ failed \cap kernels = {}
    /\ response.code = 201 => response.kid \notin failed
    /\ reply_status \notin {"none", "ok"} =>
          /\ started.kid \in failed
          /\ channels = "stopped"
          /\ call = NoCall
          /\ replied = Len(executed)
          /\ response = [code |-> 500, kid |-> 0]

C7_Step ==
    /\ (replied' = replied + 1 /\ reply_status' # "ok") =>
          /\ call' = NoCall
          /\ call.kid \notin kernels'
          /\ executed' = executed
    /\ (reply_status \notin {"none", "ok"} /\ started' = started) =>
          executed' = executed

C7_SeedFailure ==
    /\ []C7_Inv
    /\ [][C7_Step]_vars

\* The first seed cell of a notebook with two seed cells was answered 'aborted':
\* the second one was never sent and the kernel is gone.
C7_Witness ==
    /\ reply_status = "aborted"
    /\ executed = << <<"x">> >>
    /\ seed_source = << <<"x">>, <<"y">> >>
    /\ started.kid \notin kernels

(***************************************************************************)
(* C8.  For a kernel whose spec name equals the seed notebook's kernelspec *)
(* name, start_kernel sends the notebook's code cells that are neither     *)
(* endpoint cells nor response-metadata cells, in notebook order; it sends *)
(* a cell only after the reply to the one before has arrived; and it       *)
(* returns the kernel id only when all of them have been sent and          *)
(* answered.                                                               *)
(***************************************************************************)
\* The sources of CellChoices that are seed cells, per comment syntax.
SeedCellTable(kernelspec) ==
    IF kernelspec = "scala"
    THEN { <<"x">>, <<"y">>,
           <<"#", "ws", "GET", "ws", "/p", "x">>,
           <<"#", "ws", "ResponseInfo", "ws", "GET", "ws", "/p", "x">>,
           <<"#", "GET", "ws", "/p", "x">> }
    ELSE { <<"x">>, <<"y">>,
           <<"//", "ws", "PUT", "ws", "/p", "x">>,
           <<"#", "GET", "ws", "/p", "x">> }

IsExpectedSeed(cell) ==
    cell.cell_type = "code" /\ cell.source \in SeedCellTable(seed_notebook.kernelspec)

ExpectedSeeds ==
    LET cs == SelectSeq(seed_notebook.cells, IsExpectedSeed)
    IN  [i \in 1 .. Len(cs) |-> cs[i].source]

IsPrefix(s, t) == Len(s) <= Len(t) /\ SubSeq(t, 1, Len(s)) = s

C8_SeedInOrder ==
    (HasSeedSource /\ started.kid # 0 /\ started.name = seed_kernelspec) =>
        /\ IsPrefix(executed, ExpectedSeeds)
        /\ Len(executed) = replied + (IF call # NoCall /\ call.waiting THEN 1 ELSE 0)
        /\ response = [code |-> 201, kid |-> started.kid] =>
              /\ executed = ExpectedSeeds
              /\ replied = Len(ExpectedSeeds)
              /\ call = NoCall

\* A notebook of three code cells, the one in the middle an endpoint cell: the
\* kernel id was returned after the two seed cells ran in order.
C8_Witness ==
    /\ Len(seed_source) = 3
    /\ IsApiCell(seed_source[2], CommentPrefix(seed_kernelspec))
    /\ executed = << <<"x">>, <<"y">> >>
    /\ replied = 2
    /\ response = [code |-> 201, kid |-> started.kid]

(***************************************************************************)
(* C9.  The HTTP response of a request is built only from iopub messages   *)
(* whose parent is the execute request for that request's own source: a    *)
(* message left over from an earlier execution on the kernel (the REQUEST  *)
(* preamble, or an earlier request) never ends up in a later response.     *)
(***************************************************************************)
C9_OwnParentOnly ==
    h_response.used \in {0, h_response.own}

(***************************************************************************)
(* C10.  TokenAuthorizationMixin.prepare lets a request through to the     *)
(* wrapped handler's prepare if and only if no auth token is configured,   *)
(* or the method is OPTIONS, or the client's token (the `token` argument   *)
(* when there is one, else what follows 'token ' in the Authorization      *)
(* header) equals the configured token; in every other case it responds    *)
(* 401 and the wrapped prepare is not invoked.                             *)
(***************************************************************************)
\* What each token argument and each Authorization header of the model presents.
ArgumentPresents ==
    { <<Some(<<>>), <<>>>>,
      <<Some(<<"a">>), <<"a">>>>,
      <<Some(<<"b">>), <<"b">>>>,
      <<Some(<<"a", "b">>), <<"a", "b">>>>,
      <<Some(<<" ", "a">>), <<"a">>>> }

HeaderPresents ==
    { <<Some(<<"t", "o", "k", "e", "n", " ", "a">>), <<"a">>>>,
      <<Some(<<"t", "o", "k", "e", "n", " ", "a", "b">>), <<"a", "b">>>>,
      <<Some(<<"t", "o", "k", "e", "n", " ", "b">>), <<"b">>>>,
      <<Some(<<"t", "o", "k", "e", "n", " ">>), <<>>>>,
      <<Some(<<"t", "o", "k", "e", "n", " ", " ", "a">>), <<" ", "a">>>> }

TokenConfigured == server_token \in {Some(<<"a">>), Some(<<"a", "b">>)}

PresentsServerToken ==
    IF auth_request.token = None
    THEN <<auth_request.authorization, server_token.text>> \in HeaderPresents
    ELSE <<auth_request.token, server_token.text>> \in ArgumentPresents

Allowed ==
    \/ ~TokenConfigured
    \/ auth_request.method = "OPTIONS"
    \/ PresentsServerToken

C10_TokenAuth ==
    auth_request # NoRequest =>
        /\ is_prepared <=> Allowed
        /\ status_code = IF Allowed THEN 0 ELSE 401

\* The right token in an Authorization header that lacks the prefix: 401.
C10_Witness ==
    /\ server_token = Some(<<"a", "b">>)
    /\ auth_request = [method |-> "GET", token |-> None,
                       authorization |-> Some(<<"a", "b">>)]
    /\ status_code = 401
    /\ ~is_prepared

(***************************************************************************)
(* C11.  A variable of the create request's env reaches the kernel process *)
(* only if its name starts with KERNEL_ or is in env_whitelist; the        *)
(* KG_AUTH_TOKEN variable is in no kernel's environment, whether the       *)
(* gateway process has it or the request supplies it; and two create       *)
(* requests that agree on the permitted variables yield kernels with the   *)
(* same environment.                                                       *)
(***************************************************************************)
PermittedNames == {<<"KERNEL_", "FOO">>, <<"KERNEL_", "GATEWAY">>} \cup env_whitelist

C12_KernelGatewayMarker ==
    \A c \in Clients : launches[c] > 0 => kernel_environ[c][KERNEL_GATEWAY] = "1"

\* A restarted kernel whose create request set KERNEL_GATEWAY itself.
C12_Witness ==
    \E c \in Clients :
        /\ launches[c] = MaxLaunches
        /\ request_env[c][KERNEL_GATEWAY] = "c"
        /\ launch_args[c][KERNEL_GATEWAY] = "c"

(***************************************************************************)
(* C13.  GET /api/sessions and GET /api/kernels are answered 403 and       *)
(* disclose no listing unless the kg_list_kernels setting is the boolean   *)
(* True; so also with the default configuration (setting missing or        *)
(* False), whatever sessions and kernels exist.                            *)
(***************************************************************************)
C13_NoDiscovery ==
    (list_response # NoListing /\ kg_list_kernels # [type |-> "bool", val |-> 1]) =>
        /\ list_response.code = 403
        /\ list_response.body = {}

\* Both defaults, with sessions present: the list of sessions was refused.
C13_Witness ==
    /\ kg_list_kernels = PyFalse
    /\ Cardinality(sessions) = 2
    /\ list_response = [endpoint |-> "sessions", code |-> 403, body |-> {}]

(***************************************************************************)
(* C14.  APICellParser.endpoints returns each endpoint path once, sorted   *)
(* in descending order of specificity: paths without a parameter first,    *)
(* then paths whose first parameter lies deeper; paths of equal            *)
(* specificity keep the order in which the notebook defines them.          *)
(***************************************************************************)
\* The endpoint cells among SourceChoices, with verb and path.
EndpointCellTable ==
    { << <<"#", "ws", "GET", "ws", "/hello/world", "x">>, "GET", "/hello/world" >>,
      << <<"#", "ws", "GET", "ws", "/x/y", "x">>, "GET", "/x/y" >>,
      << <<"#", "ws", "GET", "ws", "/hello/:foo", "x">>, "GET", "/hello/:foo" >>,
      << <<"#", "ws", "GET", "ws", "/hello/:foo", "y">>, "GET", "/hello/:foo" >>,
      << <<"#", "ws", "POST", "ws", "/hello/:foo", "x">>, "POST", "/hello/:foo" >>,
      << <<"#", "ws", "GET", "ws", "/:foo", "x">>, "GET", "/:foo" >>,
      << <<"#", "ws", "GET", "ws", "/:bar", "x">>, "GET", "/:bar" >> }

\* Depth of the first parameter; 9 for a path without one.
Specificity(uri) ==
    CASE uri \in {"/hello/world", "/x/y", "/p"} -> 9
      [] uri = "/hello/:foo" -> 1
      [] uri \in {"/:foo", "/:bar"} -> 0

DefinedAt(table, uri) ==
    {i \in 1 .. Len(source_cells) : \E v \in Verbs : <<source_cells[i], v, uri>> \in table}

FirstDefinedAt(table, uri) ==
    CHOOSE i \in DefinedAt(table, uri) : \A j \in DefinedAt(table, uri) : i <= j

C14_SortedBySpecificity ==
    endpoints.called =>
        LET e == endpoints.value IN
        /\ {e[i].uri : i \in 1 .. Len(e)} =
              {uri \in Paths : DefinedAt(EndpointCellTable, uri) # {}}
        /\ \A i, j \in 1 .. Len(e) : i < j =>
              \/ Specificity(e[i].uri) > Specificity(e[j].uri)
              \/ /\ Specificity(e[i].uri) = Specificity(e[j].uri)
                 /\ FirstDefinedAt(EndpointCellTable, e[i].uri)
                       < FirstDefinedAt(EndpointCellTable, e[j].uri)

\* The notebook defines /:foo, /hello/:foo, /hello/world in this order; they come
\* back in the opposite one.
C14_Witness ==
    /\ endpoints.called
    /\ Len(source_cells) = 3
    /\ source_cells[1] = <<"#", "ws", "GET", "ws", "/:foo", "x">>
    /\ source_cells[3] = <<"#", "ws", "GET", "ws", "/hello/world", "x">>
    /\ [i \in 1 .. Len(endpoints.value) |-> endpoints.value[i].uri]
          = <<"/hello/world", "/hello/:foo", "/:foo">>

(***************************************************************************)
(* C15.  parameterize_path replaces every `:name` segment of a path by the *)
(* named group for exactly that segment's name and leaves every other      *)
(* character as it is, also when one parameter name is a prefix of another *)
(* or a name occurs twice.                                                 *)
(***************************************************************************)
\* The path read once from the left: a ':' opens a name that runs to the next '/'.
RECURSIVE ExpectedRegex(_)
ExpectedRegex(t) ==
    IF t = <<>> THEN <<>>
    ELSE IF Head(t) = ":"
         THEN LET n == IF \E i \in 1 .. Len(t) : t[i] = "/"
                       THEN (CHOOSE i \in 1 .. Len(t) :
                                t[i] = "/" /\ \A j \in 1 .. i - 1 : t[j] # "/") - 1
                       ELSE Len(t)
              IN  <<"(?P<">> \o SubSeq(t, 2, n) \o <<">[^\\/]+)">>
                  \o ExpectedRegex(SubSeq(t, n + 1, Len(t)))
         ELSE <<Head(t)>> \o ExpectedRegex(Tail(t))

C15_EverySegmentItsName ==
    path_regex.called => path_regex.value = ExpectedRegex(path)

(***************************************************************************)
(* C16.  The endpoint cells that share a verb and a path are concatenated  *)
(* in notebook order, each followed by a newline, into the one source for  *)
(* that verb and path, and so are the response-metadata cells; a cell with *)
(* another verb or path, or a cell without annotation, adds nothing to it. *)
(***************************************************************************)
ResponseCellTable ==
    { << <<"#", "ws", "ResponseInfo", "ws", "GET", "ws", "/hello/:foo", "x">>,
         "GET", "/hello/:foo" >>,
      << <<"#", "ws", "ResponseInfo", "ws", "GET", "ws", "/hello/:foo", "y">>,
         "GET", "/hello/:foo" >>,
      << <<"#", "ws", "ResponseInfo", "ws", "POST", "ws", "/:foo", "x">>,
         "POST", "/:foo" >> }

RECURSIVE ExpectedSource(_, _, _, _)
ExpectedSource(table, cells, verb, uri) ==
    IF cells = <<>> THEN <<>>
    ELSE (IF <<Head(cells), verb, uri>> \in table THEN Head(cells) \o <<"\n">> ELSE <<>>)
         \o ExpectedSource(table, Tail(cells), verb, uri)

Concatenated(result, table) ==
    result.called =>
        /\ \A i \in 1 .. Len(result.value), v \in Verbs :
              result.value[i].sources[v]
                 = ExpectedSource(table, source_cells, v, result.value[i].uri)
        /\ \A uri \in Paths, v \in Verbs :
              ExpectedSource(table, source_cells, v, uri) # <<>> =>
                 \E i \in 1 .. Len(result.value) : result.value[i].uri = uri

C16_Concatenation ==
    /\ Concatenated(endpoints, EndpointCellTable)
    /\ Concatenated(endpoint_responses, ResponseCellTable)

\* Two GET cells of one path with a POST cell of the same path between them.
C16_Witness ==
    /\ endpoints.called
    /\ endpoint_responses.called
    /\ source_cells = << <<"#", "ws", "GET", "ws", "/hello/:foo", "x">>,
                         <<"#", "ws", "POST", "ws", "/hello/:foo", "x">>,
                         <<"#", "ws", "GET", "ws", "/hello/:foo", "y">> >>
    /\ endpoints.value[1].sources["GET"]
          = <<"#", "ws", "GET", "ws", "/hello/:foo", "x", "\n",
              "#", "ws", "GET", "ws", "/hello/:foo", "y", "\n">>

(***************************************************************************)
(* C17.  A request whose verb has no cell is answered 405 and sends no     *)
(* code to the kernel: neither the REQUEST preamble nor a cell source is   *)
(* executed for it, and nothing is read from iopub.  A request whose verb  *)
(* has a cell is never answered 405.                                       *)
(***************************************************************************)
C17_Step ==
    reqno' # reqno =>
        IF source_code' = "None"
        THEN /\ h_response'.code = 405
             /\ h_pc' = "idle"
             /\ next_msg' = next_msg
             /\ kernel_work' = kernel_work
             /\ iopub' = iopub
        ELSE h_response'.code # 405

C17_NoCodeFor405 ==
    /\ [][C17_Step]_vars
    /\ [](h_response.code = 405 => source_code = "None")

\* The first request has no cell for its verb: 405, and the kernel was never
\* asked to execute anything.
C17_Witness ==
    /\ reqno = 1
    /\ source_code = "None"
    /\ h_response.code = 405
    /\ next_msg = 1
    /\ kernel_work = <<>>

\* A response the handler built from a message of the request's own source.
FromOwnSource ==
    /\ h_pc = "idle"
    /\ source_code # "None"
    /\ h_response.own # 0
    /\ h_response.used = h_response.own

Emits(kind) == \E i \in 1 .. Len(own_outputs) : own_outputs[i] = kind

(***************************************************************************)
(* C18.  When the endpoint's cell publishes both stdout text and an        *)
(* execute_result, the response body is the execute_result's data,         *)
(* whichever of the two is published first.  Stated for the responses      *)
(* built from the cell's own messages.                                     *)
(***************************************************************************)
C18_ExecuteResultPreferred ==
    (FromOwnSource /\ Emits("stdout") /\ Emits("execute_result"))
        => h_response.body = "execute_result"

(***************************************************************************)
(* C19.  Text written to stderr never becomes the response body: a cell    *)
(* that writes only to stderr is answered 200 with an empty body, and a    *)
(* cell that writes to stderr and then to stdout is answered with the      *)
(* stdout text.  Stated for the requests whose preamble published nothing  *)
(* the handler could take for a result.                                    *)
(***************************************************************************)
C19_StderrDiscarded ==
    (h_pc = "idle" /\ source_code # "None" /\ h_response.code # 0
        /\ h_response.used \in {0, h_response.own})
        => /\ h_response.body # "stderr"
           /\ own_outputs = <<"stderr">> =>
                  h_response.code = 200 /\ h_response.body = "none"
           /\ own_outputs = <<"stderr", "stdout">> /\ h_response.used # 0 =>
                  h_response.body = "stdout"

(***************************************************************************)
(* C20.  A matched request is answered 500 with the error's ename and      *)
(* evalue if and only if its cell publishes an error message; otherwise    *)
(* it is answered 200 (no response-metadata cell is read by this handler), *)
(* and no other status is produced.  Stated for the responses built from   *)
(* the cell's own messages.                                                *)
(***************************************************************************)
C20_ErrorIff500 ==
    FromOwnSource =>
        /\ h_response.code \in {200, 500}
        /\ h_response.code = 500 <=> Emits("error")
        /\ h_response.code = 500 => h_response.body = "error"

(***************************************************************************)
(* C21.  A request with a cell for its verb whose handler gives up         *)
(* waiting for a result (the execution timeout runs out with nothing       *)
(* taken from iopub) is answered 504, not 200 with an empty body.          *)
(***************************************************************************)
C21_TimeoutIs504 ==
    (h_pc = "idle" /\ source_code # "None" /\ h_response.code # 0
        /\ h_response.used = 0)
        => h_response.code = 504

(***************************************************************************)
(* C24.  While fewer than N kernels of the pool are borrowed or handed to  *)
(* a waiting acquire() that has yet to resume, a request that calls        *)
(* acquire() gets its kernel in that very step, whatever the requests in   *)
(* flight do; and a request that waits keeps nobody out: every request     *)
(* that is not being handled can be dispatched, and every request that     *)
(* holds a kernel can run its cell and finish.                             *)
(***************************************************************************)
\* The requests to which the semaphore has granted a permit.
Granted == InFlight \cup {r \in Requests : pc[r] = "woken"}

C24_Step ==
    \A r \in Requests :
        (Acquire(r) /\ managed_pool_initialized /\ Cardinality(Granted) < PoolSize)
            => pc'[r] \in Holding

C24_Open ==
    \A r \in Requests :
        /\ pc[r] \in {"ready", "done"} => ENABLED Acquire(r)
        /\ pc[r] = "source" => ENABLED Source(r)

C24_StepBorrowed ==
    \A r \in Requests :
        (Acquire(r) /\ managed_pool_initialized /\ Cardinality(InFlight) < PoolSize)
            => pc'[r] \in Holding

C25_AtLeastOneDelegate ==
    /\ PoolSize >= 1
    /\ managed_pool_initialized =>
          /\ sem_value + Cardinality(Granted) = PoolSize
          /\ Range(kernel_pool) \cup {kernel_id[r] : r \in InFlight} # {}
    /\ (managed_pool_initialized /\ prespawn_count = 0) =>
          /\ Range(kernel_pool) \cup {kernel_id[r] : r \in InFlight} = {1}
          /\ Cardinality(InFlight) <= 1
          /\ sem_value <= 1

\* Default configuration: request 1 (the PUT) is done and request 2 (the GET)
\* runs on the same kernel, while request 3 waits for it.
C25_Witness ==
    /\ prespawn_count = 0
    /\ pc[1] = "done" /\ status[1] = 200 /\ released[1] = 1
    /\ pc[2] = "source" /\ kernel_id[2] = 1
    /\ pc[3] = "waiting"

(***************************************************************************)
(* C22.  Pool shutdown issues no kernel shutdown before the pool's         *)
(* initialisation has finished, and it shuts the pool's kernels down in    *)
(* parallel: while the shutdown of one pool kernel is being awaited, no    *)
(* other pool kernel is still waiting for its shutdown to be issued.       *)
(***************************************************************************)
C22_ParallelAfterInit ==
    /\ (\E k \in AllKernelIds : shutdown_calls[k] > 0) =>
          (pool_initialized /\ managed_pool_initialized)
    /\ \A k \in Range(kernel_clients) :
          (sd_pending[1] \in Range(kernel_clients) /\ k # sd_pending[1]
              /\ k \in Range(kernel_ids))
              => shutdown_calls[k] > 0

(***************************************************************************)
(* C23.  When ManagedKernelPool.shutdown has returned, the kernel manager  *)
(* holds no kernel, whether a pool member or a kernel started outside the  *)
(* pool; stop_channels() was called on the client of every pool member;    *)
(* and shutdown_kernel was called exactly once for each kernel, never on a *)
(* kernel the manager had removed already.                                 *)
(***************************************************************************)
C23_AllShutDownOnce ==
    /\ sd_pc[1] # "raised"
    /\ \A k \in AllKernelIds : shutdown_calls[k] <= 1
    /\ sd_pc[1] = "done" =>
          /\ kernel_ids = <<>>
          /\ Range(kernel_clients) \subseteq channels_stopped
          /\ \A k \in AllKernelIds : shutdown_calls[k] = (IF k < next_kid THEN 1 ELSE 0)

\* A pool of two kernels and a kernel started outside the pool after the
\* pool's initialisation: shutdown has returned.
C23_Witness ==
    /\ sd_pc[1] = "done"
    /\ kernel_clients = <<1, 2>>
    /\ next_kid = 4
    /\ channels_stopped = {1, 2}
    /\ shutdown_calls[3] = 1

(***************************************************************************)
(* C26.  init_configurables raises RuntimeError exactly when both          *)
(* prespawn_count and max_kernels are set and prespawn_count is greater    *)
(* than max_kernels; it raises before the personality is created, so no    *)
(* kernel is ever spawned then.                                            *)
(***************************************************************************)
C26_PrespawnMaxConflict ==
    /\ app_pc # "new" =>
          (app_pc = "RuntimeError"
              <=> (/\ app_prespawn_count # Unset
                   /\ app_max_kernels # Unset
                   /\ app_prespawn_count > app_max_kernels))
    /\ app_pc = "RuntimeError" => (personality = "none" /\ app_spawned = 0)

(***************************************************************************)
(* C27.  init_http_server calls listen() for at most port_retries + 1      *)
(* candidate ports, the configured port first; a candidate that fails with *)
(* EADDRINUSE or with a permission error is followed by the next one; the  *)
(* first candidate that binds is the only port bound and becomes           *)
(* self.port; when every candidate has failed the application exits with   *)
(* status 1; any other OSError is raised at once.                          *)
(***************************************************************************)
LastTry == tried[Len(tried)]

\* The failures after which the next candidate is tried.
MovesOn(errno) == errno \in {"EADDRINUSE", "EACCES"}

C27_Inv ==
    /\ Len(tried) <= port_retries + 1
    /\ Cardinality(listening) <= 1
    /\ tried # <<>> => tried[1].port = configured_port
    /\ \A i \in 1 .. Len(tried) - 1 : MovesOn(tried[i].errno)
    /\ srv_pc = "new" => (tried # <<>> => MovesOn(LastTry.errno))
    /\ srv_pc = "listening" =>
          LastTry.errno = "ok" /\ listening = {LastTry.port} /\ port = LastTry.port
    /\ srv_pc = "exit(1)" =>
          /\ Len(tried) = port_retries + 1
          /\ MovesOn(LastTry.errno)
          /\ listening = {}
    /\ srv_pc = "OSError" =>
          LastTry.errno \notin {"ok", "EADDRINUSE", "EACCES"} /\ listening = {}
    /\ (port_retries = 0 /\ tried # <<>> /\ LastTry.errno = "EADDRINUSE") =>
          srv_pc = "exit(1)"

C27_Step ==
    tried' # tried => (srv_pc = "new" /\ Len(tried') = Len(tried) + 1)

C27_PortRetries ==
    /\ []C27_Inv
    /\ [][C27_Step]_vars

\* The configured port and the next one are taken; the third candidate binds.
C27_Witness ==
    /\ srv_pc = "listening"
    /\ Len(tried) = 3
    /\ tried[1].errno = "EADDRINUSE"
    /\ tried[2].errno = "EADDRINUSE"
    /\ port = configured_port + 2

(***************************************************************************)
(* C28.  On an interactive terminal the first SIGINT stops nothing: it     *)
(* installs the forceful handler and starts the confirmation.  Signal      *)
(* handling calls stop() exactly when a SIGINT arrives while the forceful  *)
(* handler is installed (from the first SIGINT until the IO loop has       *)
(* restored the original handler), when a line that starts with y or Y and *)
(* has no n or N in it is read within 5 s, or, with answer_yes set, when   *)
(* the confirmation starts; after any other line, or none, the original    *)
(* handler is restored and nothing is stopped, so that a later SIGINT      *)
(* starts a new confirmation.  SIGTERM stops the server without            *)
(* confirmation.                                                           *)
(***************************************************************************)
StartsWithY(line) == line # <<>> /\ line[1] \in {"y", "Y"}

SaysYes(line) == StartsWithY(line) /\ \A i \in 1 .. Len(line) : line[i] \notin {"n", "N"}

StopCalled == stop_calls' # stop_calls

C28_Step ==
    interactive =>
        /\ (sigint_handler = "_handle_sigint" /\ sigint_handler' = "_signal_stop") =>
              (~StopCalled /\ confirm' # "none")
        /\ (StopCalled /\ cause'[stop_calls'] # "SIGTERM") =>
              \/ cause'[stop_calls'] = "SIGINT" /\ sigint_handler = "_signal_stop"
              \/ confirm = "select" /\ SaysYes(answer')
              \/ confirm = "started" /\ answer_yes
        /\ (Sigint /\ sigint_handler = "_signal_stop") => StopCalled
        /\ (confirm = "started" /\ confirm' # "started" /\ answer_yes) => StopCalled
        /\ (confirm = "select" /\ confirm' = "none") =>
              IF SaysYes(answer')
              THEN StopCalled
              ELSE ~StopCalled /\ restore_queued'
        /\ (restore_queued /\ ~restore_queued') =>
              (sigint_handler' = "_handle_sigint" /\ ~StopCalled)
        /\ Sigterm => (StopCalled /\ http_server' = "stopped")

C28_ConfirmedStop == [][C28_Step]_vars

\* The statement with the confirmation as the claim words it: stop() is called
\* exactly on a second SIGINT while the confirmation is open or on a line
\* that starts with y.
C28_StepAsStated ==
    interactive =>
        /\ (sigint_handler = "_handle_sigint" /\ sigint_handler' = "_signal_stop") =>
              (~StopCalled /\ confirm' # "none")
        /\ (StopCalled /\ cause'[stop_calls'] # "SIGTERM") =>
              \/ cause'[stop_calls'] = "SIGINT" /\ confirm # "none"
              \/ confirm = "select" /\ StartsWithY(answer')
        /\ (confirm = "select" /\ confirm' = "none") =>
              IF StartsWithY(answer')
              THEN StopCalled
              ELSE ~StopCalled /\ restore_queued'
        /\ (restore_queued /\ ~restore_queued') =>
              (sigint_handler' = "_handle_sigint" /\ ~StopCalled)
        /\ Sigterm => (StopCalled /\ http_server' = "stopped")

C28_AsStated == [][C28_StepAsStated]_vars

\* SIGINT, then "yes" at the prompt: the one stop() call came from the answer
\* and the IO loop has stopped.
C28_Witness ==
    /\ interactive
    /\ ~answer_yes
    /\ answer = <<"y", "e", "s">>
    /\ stop_calls = 1
    /\ cause[1] = "answer"
    /\ io_loop = "stopped"

(***************************************************************************)
(* C29.  On stop the HTTP server stops accepting before any kernel         *)
(* shutdown begins; the IO loop is stopped only when the personality's     *)
(* shutdown of the kernels has returned and the kernel websocket           *)
(* connections are closed; and however often stop is called, no kernel is  *)
(* shut down twice.                                                        *)
(***************************************************************************)
C29_OrderlyStop ==
    /\ (\E k \in AllKernelIds : shutdown_calls[k] > 0) => http_server = "stopped"
    /\ io_loop = "stopped" => ((\E c \in Callers : sd_pc[c] = "done") /\ ~ws_open)
    /\ \A k \in AllKernelIds : shutdown_calls[k] <= 1

(***************************************************************************)
(* C30.  restart_kernel with no earlier start_kernel raises RuntimeError   *)
(* and neither shuts down nor starts anything.  Otherwise it calls         *)
(* shutdown_kernel once, with restart=True exactly when is_alive has seen  *)
(* the kernel running since the last start_kernel, and then start_kernel   *)
(* once with the stored launch arguments overridden by kw: the connection  *)
(* file stays the same one in the first case and is a newly written one in *)
(* the second.  has_kernel_started turns true only in is_alive and is      *)
(* false after every start_kernel.                                         *)
(***************************************************************************)
Increased(name) == km_calls'[name] = km_calls[name] + 1

Overridden(args, kw, k) == IF kw[k] = "absent" THEN args[k] ELSE kw[k]

C30_Step ==
    /\ Increased("restart_kernel") =>
          IF ~km_launch_args.set
          THEN /\ raised' = "RuntimeError"
               /\ UNCHANGED <<kernel, connection_file, files_written, km_launch_args,
                              has_kernel_started, last_shutdown, last_start>>
               /\ km_calls'.shutdown_kernel = km_calls.shutdown_kernel
               /\ km_calls'.start_kernel = km_calls.start_kernel
          ELSE /\ raised' # "RuntimeError"
               /\ Increased("shutdown_kernel")
               /\ last_shutdown'.called
               /\ last_shutdown'.restart = has_kernel_started
               /\ IF has_kernel_started
                  THEN connection_file' = connection_file
                  ELSE connection_file' = files_written' /\ files_written' > files_written
               /\ Increased("start_kernel")
               /\ \A k \in ArgKeys :
                      last_start'[k] = Overridden(km_launch_args.kw, last_kw', k)
    /\ (has_kernel_started' /\ ~has_kernel_started) => Increased("is_alive")
    /\ Increased("start_kernel") => ~has_kernel_started'

C30_RestartKernel == [][C30_Step]_vars

\* Two restarts have happened, one of a kernel seen running, which kept its
\* connection file, and one of a kernel never seen running, which got a new
\* file, and the latest overrode a stored launch argument.
C30_Witness ==
    /\ km_calls.restart_kernel = 2
    /\ km_calls.shutdown_kernel = 2
    /\ files_written = 2
    /\ km_calls.is_alive > 0
    /\ \E k \in ArgKeys : last_kw[k] # "absent" /\ last_start[k] = last_kw[k]
    /\ \E k \in ArgKeys : last_kw[k] = "absent" /\ last_start[k] # "absent"

(***************************************************************************)
(* C31.  A kernel that start_kernel returns has been seeded exactly when a *)
(* seed notebook is configured and the kernel's spec name is the seed      *)
(* notebook's kernelspec name: then every seed cell has been executed on   *)
(* it in notebook order, and otherwise no client was made and nothing was  *)
(* executed at any moment of the call.  start_seeded_kernel starts the     *)
(* kernel under the seed notebook's kernelspec.                            *)
(***************************************************************************)
SeedCells == SelectSeq(seed_source, ShouldSeed)

NameMatches == seed_notebook # NoNotebook /\ started.name = seed_notebook.kernelspec

C31_Inv ==
    /\ (started.kid # 0 /\ ~NameMatches) =>
          (executed = <<>> /\ channels = "none" /\ call = NoCall /\ response.code = 201)
    /\ (response.code = 201 /\ response.kid = started.kid /\ call = NoCall /\ NameMatches) =>
          (executed = SeedCells /\ channels = "stopped")

C31_Step ==
    (StartSeededKernel /\ seed_notebook # NoNotebook) =>
        started'.name = seed_notebook.kernelspec

C31_SeededIffSpecMatches == [](C31_Inv) /\ [][C31_Step]_vars

\* start_seeded_kernel has returned a kernel on which two seed cells were run
\* and an endpoint cell of the notebook was not.
C31_Witness ==
    /\ seed_notebook # NoNotebook
    /\ response.code = 201
    /\ response.kid = started.kid
    /\ started.name = seed_notebook.kernelspec
    /\ Len(executed) = 2
    /\ Len(seed_source) = 3
    /\ channels = "stopped"

(***************************************************************************)
(* C32.  When a token is configured and the method is not OPTIONS, a       *)
(* request that has a `token` query argument is let through exactly when   *)
(* that argument, as get_argument returns it, equals the server token,     *)
(* whatever its Authorization header says; a request without the argument  *)
(* is let through exactly when its header is `token ` followed by the      *)
(* server token.  Every other request gets 401.                            *)
(***************************************************************************)
Enforced == Truthy(server_token) /\ auth_request.method \notin {"none", "OPTIONS"}

HeaderCarries(t) ==
    /\ auth_request.authorization.some
    /\ auth_request.authorization.text = header_prefix \o t

C32_QueryTokenFirst ==
    Enforced =>
        /\ is_prepared <=>
              IF auth_request.token.some
              THEN Strip(auth_request.token.text) = server_token.text
              ELSE HeaderCarries(server_token.text)
        /\ ~is_prepared <=> status_code = 401

\* A wrong query token with the right token in the header: 401.
C32_Witness ==
    /\ Enforced
    /\ auth_request.token = Some(<<"b">>)
    /\ HeaderCarries(server_token.text)
    /\ status_code = 401
    /\ ~is_prepared

(***************************************************************************)
(* C33.  write_error sets Content-Type application/json and the given      *)
(* status code and writes a JSON object with one `reason` and one          *)
(* `message`.  `reason` is the exception's reason when it has a non-empty  *)
(* one, else the standard phrase of the status code (for a code that has   *)
(* none, "Unknown HTTP Error").  `message` is the HTTPError's log_message, *)
(* empty when that is missing or there is no exception; for an exception   *)
(* that is not an HTTPError it is "Unknown server error" and a `traceback` *)
(* comes with it.                                                          *)
(***************************************************************************)
Values(obj, key) == {kv[2] : kv \in {x \in obj : x[1] = key}}

StandardPhrase(code) ==
    IF code \in DOMAIN responses THEN responses[code] ELSE <<"Unknown", "HTTP", "Error">>

C33_JsonError ==
    LET exc == error_call.exception
        body == error_response.body
    IN  error_call.status_code # 0 =>
          /\ error_response.content_type = "application/json"
          /\ error_response.status = error_call.status_code
          /\ Values(body, "reason") =
                {IF exc.kind # "none" /\ exc.reason.some /\ exc.reason.text # <<>>
                 THEN exc.reason.text
                 ELSE StandardPhrase(error_call.status_code)}
          /\ Values(body, "message") =
                {CASE exc.kind = "none" -> <<>>
                   [] exc.kind = "HTTPError" ->
                        (IF exc.log_message.some THEN exc.log_message.text ELSE <<>>)
                   [] exc.kind = "Exception" -> <<"Unknown", "server", "error">>}
          /\ (Values(body, "traceback") # {}) <=> (exc.kind = "Exception")
          /\ {kv[1] : kv \in body} \subseteq {"reason", "message", "traceback"}

\* An exception that is not an HTTPError and has a reason of its own.
C33_Witness ==
    /\ error_call.status_code = 500
    /\ error_call.exception.kind = "Exception"
    /\ error_call.exception.reason = Some(<<"fake-reason">>)
    /\ <<"reason", <<"fake-reason">> >> \in error_response.body
    /\ <<"message", <<"Unknown", "server", "error">> >> \in error_response.body
    /\ Values(error_response.body, "traceback") # {}

(***************************************************************************)
(* C34.  Once initialize() has resolved managed_pool_initialized, the      *)
(* permits of kernel_semaphore together with the permits release() has     *)
(* handed to waiters that have not run on yet equal the length of          *)
(* kernel_pool, so the permits never exceed it.  Before that the semaphore *)
(* holds all its permits while kernel_pool is empty, and no acquire() has  *)
(* got as far as the semaphore.  An acquire() that gets past the semaphore *)
(* finds kernel_pool non-empty and returns its head.                       *)
(***************************************************************************)
Woken == {r \in Requests : pc[r] = "woken"}

PastSemaphore(r) ==
    \/ pc[r] = "woken" /\ pc'[r] # "woken"
    \/ pc[r] \in {"ready", "done", "awaitInit"} /\ sem_value' < sem_value /\ pc'[r] # pc[r]

C34_Inv ==
    IF managed_pool_initialized
    THEN sem_value + Cardinality(Woken) = Len(kernel_pool)
    ELSE /\ kernel_pool = <<>>
         /\ sem_value \in {0, PoolSize}
         /\ \A r \in Requests : pc[r] \in {"ready", "awaitInit"}

C34_Step ==
    \A r \in Requests :
        PastSemaphore(r) =>
            /\ kernel_pool # <<>>
            /\ pc'[r] = "source"
            /\ kernel_id'[r] = Head(kernel_pool)

C34_PermitsMatchFreeList == [](C34_Inv) /\ [][C34_Step]_vars

\* The statement for every reachable state: the permits never exceed the
\* length of the free list.
C34_AsStated == sem_value <= Len(kernel_pool)

\* Two kernels are free, one permit is left and the other has been handed to
\* a waiter that has yet to take its kernel.
C34_Witness ==
    /\ managed_pool_initialized
    /\ Len(kernel_pool) = 2
    /\ sem_value = 1
    /\ Cardinality(Woken) = 1

(***************************************************************************)
(* C35.  Whenever a request holds or has held a kernel that acquire()      *)
(* returned, initialize() has completed: all PoolSize kernels were         *)
(* spawned and each has its client.  A request that calls acquire()        *)
(* earlier waits at managed_pool_initialized; it neither fails nor gets a  *)
(* kernel until initialize() has completed.                                *)
(***************************************************************************)
Initialized ==
    /\ init_pc = "done"
    /\ spawned = PoolSize
    /\ spawn_failed = 0
    /\ Len(kernel_clients) = PoolSize

C35_Inv ==
    \A r \in Requests :
        /\ pc[r] \notin {"ready", "awaitInit"} => Initialized
        /\ kernel_id[r] # NoKernel =>
              (Initialized /\ \E i \in 1 .. Len(kernel_clients) : kernel_clients[i] = kernel_id[r])
        /\ (pc[r] = "awaitInit" /\ ~Initialized) => status[r] = 0

C35_Step ==
    \A r \in Requests :
        (pc[r] = "ready" /\ pc'[r] # "ready" /\ ~Initialized) => pc'[r] = "awaitInit"

C35_NoAcquireBeforeInitialized == [](C35_Inv) /\ [][C35_Step]_vars

\* A request has called acquire() while the second kernel of the pool was
\* still being spawned: it waits without a kernel.
C35_Witness ==
    /\ PoolSize = 2
    /\ init_pc = "gather"
    /\ spawned = 1
    /\ \E r \in Requests :
          /\ pc[r] = "awaitInit"
          /\ kernel_id[r] = NoKernel
          /\ status[r] = 0

(***************************************************************************)
(* C36.  Every shutdown() that is called completes, whether initialize()   *)
(* completed or raised and whether or not kernels are borrowed, and when   *)
(* it has completed the kernel manager has no kernel left.                 *)
(***************************************************************************)
ShutdownCalled == sd_pc[1] # "none"

ShutdownCompleted == sd_pc[1] = "done" /\ kernel_ids = <<>>

C36_ShutdownCompletes == ShutdownCalled ~> ShutdownCompleted

=============================================================================
